---- MODULE Spec2Model ----
(***************************************************************************)
(* K-Scope: the entry store (src/routes/db.ts) and the launch dispatcher   *)
(* (src/lib/logic.ts).                                                     *)
(*                                                                         *)
(* The store is a SQLite database that outlives the process; db.ts keeps   *)
(* one module-level handle `db`.  Every exported function is async: it     *)
(* runs synchronously up to its first await and is resumed when the        *)
(* awaited statement has been executed.  One step of the model is one such *)
(* resumption: the awaited statement takes effect and the code runs on to  *)
(* the next await.                                                         *)
(***************************************************************************)
EXTENDS Integers, Sequences, FiniteSets, TLC

VARIABLES
    db,            \* db.ts:23  the module-level handle: FALSE is null
    entriesShape,  \* table `entries`: "none" | "legacy" | "current"
    entriesRows,   \* the rows of table `entries`
    oldExists,     \* whether table `entries_old` exists
    oldRows,       \* the rows of table `entries_old`
    seq,           \* sqlite_sequence value of `entries` (AUTOINCREMENT)
    clock,         \* unixepoch(), in seconds
    initPc,        \* position of the initDatabase call
    call,          \* the store call of the client (getEntries, addEntry, ...)
    deleted,       \* history: the ids a deleteEntry call removed, until an add produces them
    everIds,       \* history: every id a row of table `entries` has had
    lentry,        \* launchEntry: the entry passed
    lpc,           \* launchEntry: position of the call
    cmds,          \* launchEntry: the commands created and executed by the call
    lret,          \* launchEntry: the value the call resolved to
    lexec,         \* launchEntry: the state of the awaited command.execute()
    timers,        \* the remaining delays (ms) of the pending setTimeout callbacks
    scheduled,     \* the number of setTimeout callbacks launchEntry has scheduled
    hides,         \* the number of hide requests the callbacks have made
    pin,           \* parseArgs: argsString
    pout,          \* parseArgs: the returned list
    ppc,           \* parseArgs: position of the call
    isOpen,        \* +page.svelte: the panel is shown as open
    winVisible,    \* the application window is visible (appWindow.show / hide)
    activeTab,     \* +page.svelte: "games" | "apps" | "add"
    games,         \* +page.svelte: the list of the games grid
    apps,          \* +page.svelte: the list of the apps grid
    launchingItem, \* +page.svelte: {} for null, {name} for a name
    launching,     \* the handleLaunch calls waiting for launchEntry
    toggling,      \* the toggleWindow call of the hotkey callback: the await it waits at
    formEntryType, formLaunchType, formName, formLaunchData, formLaunchArgs, formImage,
    formError,     \* +page.svelte: the form
    editingEntry,  \* +page.svelte: the entry being edited, NullEntry for null
    selectedGameIndex, selectedAppIndex,
    mountPc,       \* position of the onMount callback
    dcall          \* the deleteEntry call of handleDelete

storeVars == <<db, entriesShape, entriesRows, oldExists, oldRows, seq, clock, initPc, call, deleted,
              everIds>>
launchVars == <<lentry, lpc, cmds, lret, lexec, timers, scheduled, hides>>
parseVars == <<pin, pout, ppc>>
formFields == <<formEntryType, formLaunchType, formName, formLaunchData, formLaunchArgs, formImage,
                formError>>
listVars == <<games, apps, selectedGameIndex, selectedAppIndex>>
winVars == <<isOpen, winVisible, launchingItem, launching, toggling>>
pageVars == <<isOpen, winVisible, activeTab, games, apps, launchingItem, launching, toggling,
              formEntryType, formLaunchType, formName, formLaunchData, formLaunchArgs, formImage,
              formError, editingEntry, selectedGameIndex, selectedAppIndex, mountPc, dcall>>
vars == <<db, entriesShape, entriesRows, oldExists, oldRows, seq, clock, initPc, call, deleted, everIds,
          lentry, lpc, cmds, lret, lexec, timers, scheduled, hides, pin, pout, ppc,
          isOpen, winVisible, activeTab, games, apps, launchingItem, launching, toggling,
          formEntryType, formLaunchType, formName, formLaunchData, formLaunchArgs, formImage,
          formError, editingEntry, selectedGameIndex, selectedAppIndex, mountPc, dcall>>

-----------------------------------------------------------------------------
(* Bounds of the model *)

\* addEntry is not called once the next id would exceed MaxId
MaxId == 2
\* the clock stops advancing at MaxClock
MaxClock == 1
\* longest argsString drawn from the alphabet
MaxLen == 4
\* launchEntry is not called once it has scheduled MaxLaunches hide callbacks
MaxLaunches == 2

-----------------------------------------------------------------------------
(* Data *)

Categories == {"game", "app"}
LaunchTypes == {"steam", "exe", "url", "bat"}

\* A string the code trims, splits or tests is the sequence of its characters;
\* image_data (a data URL the code only tests for emptiness) is kept whole
Str_Hades == <<"H", "a", "d", "e", "s">>
Str_App == <<"A", "p", "p">>
Str_814380 == <<"8", "1", "4", "3", "8", "0">>
Str_exe == <<"C", ":", "/", "g", "/", "a", ".", "e", "x", "e">>
Str_flag == <<"-", "-", "f", "l", "a", "g">>
Str_Sekiro == <<"S", "e", "k", "i", "r", "o">>
Str_Notes == <<"N", "o", "t", "e", "s">>
Str_sekiro_bat == <<"C", ":", "/", "s", ".", "b", "a", "t">>
Str_notes_bat == <<"C", ":", "/", "n", ".", "b", "a", "t">>

\* The argument tuples the client passes to addEntry and updateEntry
Payloads ==
    { [name |-> Str_Hades, launch_type |-> "steam", launch_data |-> Str_814380,
       launch_args |-> <<>>, image_data |-> "img1"],
      [name |-> Str_App, launch_type |-> "exe", launch_data |-> Str_exe,
       launch_args |-> Str_flag, image_data |-> "img2"] }

\* Rows a legacy table (bat_path, no launch_type) may hold at first start
LegacyPool ==
    { [id |-> 1, type |-> "game", name |-> Str_Sekiro, bat_path |-> Str_sekiro_bat,
       image_data |-> "img1", deprecated |-> 0, created_at |-> 0],
      [id |-> 2, type |-> "app", name |-> Str_Notes, bat_path |-> Str_notes_bat,
       image_data |-> "img2", deprecated |-> 1, created_at |-> 0] }

Ids == 1..MaxId

MaxOf(S) == IF S = {} THEN 0 ELSE CHOOSE m \in S : \A x \in S : x <= m

IdsOf(rows) == {r.id : r \in rows}

NoPayload == [name |-> <<>>, launch_type |-> "", launch_data |-> <<>>,
              launch_args |-> <<>>, image_data |-> ""]

\* The client has no store call in progress and none has completed
NoCall == [op |-> "none", type |-> "", id |-> 0, payload |-> NoPayload,
           pc |-> "none", err |-> "", ret |-> <<>>]

NotInitialized == "Database not initialized"
SqlError == "sqlite error"
TypeError == "TypeError"

-----------------------------------------------------------------------------
(* The SQL statements of db.ts, as functions of the rows *)

\* PRAGMA table_info(entries): the column names of the table
TableInfo(shape) ==
    IF shape = "legacy"
    THEN {"id", "type", "name", "bat_path", "image_data", "deprecated", "created_at"}
    ELSE IF shape = "current"
    THEN {"id", "type", "name", "launch_type", "launch_data", "launch_args",
          "image_data", "deprecated", "created_at"}
    ELSE {}

hasOldSchema(columns) == "bat_path" \in columns /\ "launch_type" \notin columns

\* Mutant: the fresh-install branch is a plain else
tableExists_Never(columns) == FALSE

tableExists(columns) == columns # {}

\* The position initDatabase continues at once PRAGMA table_info has resolved
InitBranch(columns) ==
    IF hasOldSchema(columns) THEN "rename"
    ELSE IF ~tableExists(columns) THEN "createFresh"
    ELSE "done"

\* Mutant: the copy takes the name column for launch_data
MigrateRow_WrongColumn(r) ==
    [id |-> r.id, type |-> r.type, name |-> r.name, launch_type |-> "bat",
     launch_data |-> r.name, launch_args |-> <<>>, image_data |-> r.image_data,
     deprecated |-> r.deprecated, created_at |-> r.created_at]

\* Mutant: the copy leaves deprecated and created_at to their defaults
MigrateRow_Defaults(r) ==
    [id |-> r.id, type |-> r.type, name |-> r.name, launch_type |-> "bat",
     launch_data |-> r.bat_path, launch_args |-> <<>>, image_data |-> r.image_data,
     deprecated |-> 0, created_at |-> 0]

\* INSERT INTO entries (...) SELECT id, type, name, 'bat', bat_path, '', ... FROM entries_old
MigrateRow(r) ==
    [id |-> r.id, type |-> r.type, name |-> r.name, launch_type |-> "bat",
     launch_data |-> r.bat_path, launch_args |-> <<>>, image_data |-> r.image_data,
     deprecated |-> r.deprecated, created_at |-> r.created_at]

\* id INTEGER PRIMARY KEY AUTOINCREMENT: one more than the largest id the table
\* holds or has ever held
NextRowId(rows, s) == MaxOf(IdsOf(rows) \cup {s}) + 1

\* Mutant: launch_args is left out of the INSERT and takes its default ''
InsertRow_NoArgs(id, type, p, now) ==
    [id |-> id, type |-> type, name |-> p.name, launch_type |-> p.launch_type,
     launch_data |-> p.launch_data, launch_args |-> <<>>,
     image_data |-> p.image_data, deprecated |-> 0, created_at |-> now]

\* INSERT INTO entries (type, name, launch_type, launch_data, launch_args, image_data)
\* with the defaults of the other columns
InsertRow(id, type, p, now) ==
    [id |-> id, type |-> type, name |-> p.name, launch_type |-> p.launch_type,
     launch_data |-> p.launch_data, launch_args |-> p.launch_args,
     image_data |-> p.image_data, deprecated |-> 0, created_at |-> now]

\* UPDATE entries SET name = ?, launch_type = ?, launch_data = ?, launch_args = ?,
\* image_data = ? WHERE id = ?
UpdateRow(r, p) ==
    [r EXCEPT !.name = p.name, !.launch_type = p.launch_type,
              !.launch_data = p.launch_data, !.launch_args = p.launch_args,
              !.image_data = p.image_data]

\* Mutant: the UPDATE has no WHERE clause
UpdateRows_NoWhere(rows, id, p) == {UpdateRow(r, p) : r \in rows}

UpdateRows(rows, id, p) == {IF r.id = id THEN UpdateRow(r, p) ELSE r : r \in rows}

\* Mutant: the UPDATE of deprecated has no WHERE clause
ToggleRows_NoWhere(rows, id) ==
    {[r EXCEPT !.deprecated = IF r.deprecated = 0 THEN 1 ELSE 0] : r \in rows}

\* Mutant: the flag is set instead of negated
ToggleRows_Set(rows, id) ==
    {IF r.id = id THEN [r EXCEPT !.deprecated = 1] ELSE r : r \in rows}

\* UPDATE entries SET deprecated = NOT deprecated WHERE id = ?
ToggleRows(rows, id) ==
    {IF r.id = id THEN [r EXCEPT !.deprecated = IF r.deprecated = 0 THEN 1 ELSE 0] ELSE r
       : r \in rows}

\* Mutant: the DELETE compares with the wrong operator
DeleteRows_Inverted(rows, id) == {r \in rows : r.id = id}

\* DELETE FROM entries WHERE id = ?
DeleteRows(rows, id) == {r \in rows : r.id # id}

\* rows.map(row => ({...row, deprecated: Boolean(row.deprecated)}))
ToEntry(row) == [row EXCEPT !.deprecated = (row.deprecated # 0)]

\* Mutant: the SELECT has no WHERE clause
SelectByType_All(rows, type) == rows

\* SELECT * FROM entries WHERE type = ?
SelectByType(rows, type) == {r \in rows : r.type = type}

\* ORDER BY created_at DESC: every order of the rows with created_at descending
\* (SQLite leaves the order of rows with equal created_at open)
OrderByCreatedAtDesc(rows) ==
    { s \in [1..Cardinality(rows) -> rows] :
        /\ \A i, j \in 1..Cardinality(rows) : i # j => s[i] # s[j]
        /\ \A i, j \in 1..Cardinality(rows) : i < j => s[i].created_at >= s[j].created_at }

MapToEntry(s) == [i \in 1..Len(s) |-> ToEntry(s[i])]

-----------------------------------------------------------------------------
(* initDatabase (db.ts:28-92) *)

InitRunning == initPc \notin {"idle", "done", "failed"}

\* initDatabase() is called: Database.load is issued
InitCall ==
    /\ ~InitRunning
    /\ initPc' = "load"
    /\ UNCHANGED <<db, entriesShape, entriesRows, oldExists, oldRows, seq, clock, call, deleted, everIds, launchVars, parseVars, pageVars>>

\* db = await Database.load(...); PRAGMA table_info is issued
InitLoad ==
    /\ initPc = "load"
    /\ db' = TRUE
    /\ initPc' = "pragma"
    /\ UNCHANGED <<entriesShape, entriesRows, oldExists, oldRows, seq, clock, call, deleted, everIds, launchVars, parseVars, pageVars>>

\* PRAGMA table_info(entries) resolves; the branch is chosen; with the current
\* schema nothing more is awaited and the call completes
InitPragma ==
    /\ initPc = "pragma"
    /\ initPc' = InitBranch(TableInfo(entriesShape))
    /\ UNCHANGED <<db, entriesShape, entriesRows, oldExists, oldRows, seq, clock, call, deleted, everIds, launchVars, parseVars, pageVars>>

\* 1. ALTER TABLE entries RENAME TO entries_old
InitRename ==
    /\ initPc = "rename"
    /\ IF entriesShape = "none" \/ oldExists
       THEN /\ initPc' = "failed"
            /\ UNCHANGED <<entriesShape, entriesRows, oldExists, oldRows, seq>>
       ELSE /\ initPc' = "create"
            /\ oldExists' = TRUE
            /\ oldRows' = entriesRows
            /\ entriesShape' = "none"
            /\ entriesRows' = {}
            /\ seq' = 0
    /\ UNCHANGED <<db, clock, call, deleted, everIds, launchVars, parseVars, pageVars>>

\* CREATE TABLE entries (...), of the migration (next "copy") and of the fresh
\* install (next "done")
CreateTable(next) ==
    IF entriesShape # "none"
    THEN /\ initPc' = "failed"
         /\ UNCHANGED <<entriesShape, entriesRows, seq>>
    ELSE /\ initPc' = next
         /\ entriesShape' = "current"
         /\ entriesRows' = {}
         /\ seq' = 0

\* 2. Create new table
InitCreate ==
    /\ initPc = "create"
    /\ CreateTable("copy")
    /\ UNCHANGED <<db, oldExists, oldRows, clock, call, deleted, everIds, launchVars, parseVars, pageVars>>

\* The rows the copy statement inserts
CopiedRows(legacy) == {MigrateRow(r) : r \in legacy}

\* 3. INSERT INTO entries (...) SELECT ... FROM entries_old; the statement fails
\* as a whole on a primary key that is already taken
InitCopy ==
    /\ initPc = "copy"
    /\ IF \/ ~oldExists
          \/ entriesShape # "current"
          \/ IdsOf(oldRows) \cap IdsOf(entriesRows) # {}
       THEN /\ initPc' = "failed"
            /\ UNCHANGED <<entriesRows, seq>>
       ELSE /\ initPc' = "drop"
            /\ entriesRows' = entriesRows \cup CopiedRows(oldRows)
            /\ seq' = MaxOf(IdsOf(oldRows) \cup {seq})
    /\ UNCHANGED <<db, entriesShape, oldExists, oldRows, clock, call, deleted, everIds, launchVars, parseVars, pageVars>>

\* 4. DROP TABLE entries_old
InitDrop ==
    /\ initPc = "drop"
    /\ IF ~oldExists
       THEN /\ initPc' = "failed"
            /\ UNCHANGED <<oldExists, oldRows>>
       ELSE /\ initPc' = "done"
            /\ oldExists' = FALSE
            /\ oldRows' = {}
    /\ UNCHANGED <<db, entriesShape, entriesRows, seq, clock, call, deleted, everIds, launchVars, parseVars, pageVars>>

\* Fresh install - create new schema
InitCreateFresh ==
    /\ initPc = "createFresh"
    /\ CreateTable("done")
    /\ UNCHANGED <<db, oldExists, oldRows, clock, call, deleted, everIds, launchVars, parseVars, pageVars>>

\* The awaited load or statement rejects (the storage engine fails): the error
\* propagates out of initDatabase, nothing is rolled back
InitFail ==
    /\ InitRunning
    /\ initPc' = "failed"
    /\ UNCHANGED <<db, entriesShape, entriesRows, oldExists, oldRows, seq, clock, call, deleted, everIds, launchVars, parseVars, pageVars>>

-----------------------------------------------------------------------------
(* The store calls of the client (db.ts:97-189) *)

CallIdle == call.pc = "none"

\* if (!db) throw new Error("Database not initialized"); otherwise the first
\* statement is issued and the call waits at `first`
Enter(op, type, id, p, first) ==
    IF ~db
    THEN [op |-> op, type |-> type, id |-> id, payload |-> p,
          pc |-> "threw", err |-> NotInitialized, ret |-> <<>>]
    ELSE [op |-> op, type |-> type, id |-> id, payload |-> p,
          pc |-> first, err |-> "", ret |-> <<>>]

Throw(c, e) == [c EXCEPT !.pc = "threw", !.err = e]

Return(c, r) == [c EXCEPT !.pc = "returned", !.ret = r]

\* getEntries(type) is called
GetEntriesCall ==
    /\ CallIdle
    /\ \E type \in Categories : call' = Enter("getEntries", type, 0, NoPayload, "select")
    /\ UNCHANGED <<db, entriesShape, entriesRows, oldExists, oldRows, seq, clock, initPc, deleted, everIds, launchVars, parseVars, pageVars>>

\* SELECT * FROM entries WHERE type = ? ORDER BY created_at DESC resolves
GetEntriesSelect ==
    /\ call.op = "getEntries" /\ call.pc = "select"
    /\ IF entriesShape = "none"
       THEN call' = Throw(call, SqlError)
       ELSE \E rows \in OrderByCreatedAtDesc(SelectByType(entriesRows, call.type)) :
                call' = Return(call, MapToEntry(rows))
    /\ UNCHANGED <<db, entriesShape, entriesRows, oldExists, oldRows, seq, clock, initPc, deleted, everIds, launchVars, parseVars, pageVars>>

\* addEntry(type, name, launchType, launchData, launchArgs, imageData) is called
AddEntryCall ==
    /\ CallIdle
    /\ NextRowId(entriesRows, seq) <= MaxId
    /\ \E type \in Categories, p \in Payloads :
           call' = Enter("addEntry", type, 0, p, "insert")
    /\ UNCHANGED <<db, entriesShape, entriesRows, oldExists, oldRows, seq, clock, initPc, deleted, everIds, launchVars, parseVars, pageVars>>

\* INSERT INTO entries (...) VALUES (...) resolves with lastInsertId
AddEntryInsert ==
    /\ call.op = "addEntry" /\ call.pc = "insert"
    /\ IF entriesShape # "current"
       THEN /\ call' = Throw(call, SqlError)
            /\ UNCHANGED <<entriesRows, seq, deleted, everIds>>
       ELSE LET id == NextRowId(entriesRows, seq) IN
            /\ entriesRows' = entriesRows \cup {InsertRow(id, call.type, call.payload, clock)}
            /\ seq' = id
            /\ call' = [call EXCEPT !.pc = "select", !.id = id]
            /\ deleted' = deleted \ {id}
            /\ everIds' = everIds \cup {id}
    /\ UNCHANGED <<db, entriesShape, oldExists, oldRows, clock, initPc, launchVars, parseVars, pageVars>>

\* SELECT * FROM entries WHERE id = ? resolves; entries[0] is returned
AddEntrySelect ==
    /\ call.op = "addEntry" /\ call.pc = "select"
    /\ LET entries == {r \in entriesRows : r.id = call.id} IN
       IF entriesShape = "none"
       THEN call' = Throw(call, SqlError)
       ELSE IF entries = {}
       THEN call' = Throw(call, TypeError)
       ELSE \E r \in entries : call' = Return(call, <<ToEntry(r)>>)
    /\ UNCHANGED <<db, entriesShape, entriesRows, oldExists, oldRows, seq, clock, initPc, deleted, everIds, launchVars, parseVars, pageVars>>

\* deleteEntry(id) is called
DeleteEntryCall ==
    /\ CallIdle
    /\ \E id \in Ids : call' = Enter("deleteEntry", "", id, NoPayload, "execute")
    /\ UNCHANGED <<db, entriesShape, entriesRows, oldExists, oldRows, seq, clock, initPc, deleted, everIds, launchVars, parseVars, pageVars>>

\* DELETE FROM entries WHERE id = ? resolves
DeleteEntryExecute ==
    /\ call.op = "deleteEntry" /\ call.pc = "execute"
    /\ IF entriesShape = "none"
       THEN /\ call' = Throw(call, SqlError)
            /\ UNCHANGED <<entriesRows, deleted>>
       ELSE /\ entriesRows' = DeleteRows(entriesRows, call.id)
            /\ call' = Return(call, <<>>)
            /\ deleted' = deleted \cup {call.id}
    /\ UNCHANGED <<db, entriesShape, oldExists, oldRows, seq, clock, initPc, everIds, launchVars, parseVars, pageVars>>

\* toggleDeprecated(id) is called
ToggleDeprecatedCall ==
    /\ CallIdle
    /\ \E id \in Ids : call' = Enter("toggleDeprecated", "", id, NoPayload, "execute")
    /\ UNCHANGED <<db, entriesShape, entriesRows, oldExists, oldRows, seq, clock, initPc, deleted, everIds, launchVars, parseVars, pageVars>>

\* UPDATE entries SET deprecated = NOT deprecated WHERE id = ? resolves
ToggleDeprecatedExecute ==
    /\ call.op = "toggleDeprecated" /\ call.pc = "execute"
    /\ IF entriesShape = "none"
       THEN /\ call' = Throw(call, SqlError)
            /\ UNCHANGED entriesRows
       ELSE /\ entriesRows' = ToggleRows(entriesRows, call.id)
            /\ call' = Return(call, <<>>)
    /\ UNCHANGED <<db, entriesShape, oldExists, oldRows, seq, clock, initPc, deleted, everIds, launchVars, parseVars, pageVars>>

\* updateEntry(id, name, launchType, launchData, launchArgs, imageData) is called
UpdateEntryCall ==
    /\ CallIdle
    /\ \E id \in Ids, p \in Payloads : call' = Enter("updateEntry", "", id, p, "execute")
    /\ UNCHANGED <<db, entriesShape, entriesRows, oldExists, oldRows, seq, clock, initPc, deleted, everIds, launchVars, parseVars, pageVars>>

\* UPDATE entries SET name = ?, ... WHERE id = ? resolves (a legacy table has
\* no launch_type column: the statement fails)
UpdateEntryExecute ==
    /\ call.op = "updateEntry" /\ call.pc = "execute"
    /\ IF entriesShape # "current"
       THEN /\ call' = Throw(call, SqlError)
            /\ UNCHANGED entriesRows
       ELSE /\ entriesRows' = UpdateRows(entriesRows, call.id, call.payload)
            /\ call' = Return(call, <<>>)
    /\ UNCHANGED <<db, entriesShape, oldExists, oldRows, seq, clock, initPc, deleted, everIds, launchVars, parseVars, pageVars>>

\* The caller has taken the result of its call: the value returned or the error
CallSettled ==
    /\ call.pc \in {"returned", "threw"}
    /\ call' = NoCall
    /\ UNCHANGED <<db, entriesShape, entriesRows, oldExists, oldRows, seq, clock, initPc, deleted, everIds, launchVars, parseVars, pageVars>>

\* One second passes
Tick ==
    /\ clock < MaxClock
    /\ clock' = clock + 1
    /\ UNCHANGED <<db, entriesShape, entriesRows, oldExists, oldRows, seq, initPc, call, deleted, everIds, launchVars, parseVars, pageVars>>

\* The process ends and the application is started again: the module state
\* is fresh, the database file is kept
Restart ==
    /\ initPc # "idle"
    /\ db' = FALSE
    /\ initPc' = "idle"
    /\ call' = NoCall
    /\ UNCHANGED <<entriesShape, entriesRows, oldExists, oldRows, seq, clock, deleted, everIds, launchVars, parseVars, pageVars>>

-----------------------------------------------------------------------------
(* Specifications of the store *)

LaunchIdle ==
    /\ lentry = [launch_type |-> "", launch_data |-> <<>>, launch_args |-> <<>>]
    /\ lpc = "idle"
    /\ cmds = <<>>
    /\ lret = "none"
    /\ lexec = "none"
    /\ timers = <<>>
    /\ scheduled = 0
    /\ hides = 0

ParseIdle == pin = <<>> /\ pout = <<>> /\ ppc = "idle"

\* let editingEntry = $state<Entry | null>(null)
NullEntry ==
    [id |-> 0, type |-> "", name |-> <<>>, launch_type |-> "", launch_data |-> <<>>,
     launch_args |-> <<>>, image_data |-> "", deprecated |-> FALSE, created_at |-> 0]

\* handleDelete is not waiting for deleteEntry
NoDelete == [pc |-> "none", entry |-> NullEntry]

\* The initial values of the form (+page.svelte:27-33)
FormInitial ==
    /\ formEntryType = "game"
    /\ formLaunchType = "steam"
    /\ formName = <<>>
    /\ formLaunchData = <<>>
    /\ formLaunchArgs = <<>>
    /\ formImage = ""
    /\ formError = ""

\* The state of the component when it is created (+page.svelte:15-42); the
\* onMount callback has not run
PageIdle ==
    /\ isOpen = FALSE
    /\ winVisible = FALSE
    /\ activeTab = "games"
    /\ games = <<>>
    /\ apps = <<>>
    /\ launchingItem = {}
    /\ launching = <<>>
    /\ toggling = "none"
    /\ FormInitial
    /\ editingEntry = NullEntry
    /\ selectedGameIndex = 0
    /\ selectedAppIndex = 0
    /\ mountPc = "idle"
    /\ dcall = NoDelete

\* First start: no database yet, or the database of an earlier version
Init ==
    /\ db = FALSE
    /\ initPc = "idle"
    /\ call = NoCall
    /\ deleted = {}
    /\ clock = 0
    /\ seq = 0
    /\ oldExists = FALSE
    /\ oldRows = {}
    /\ \/ entriesShape = "none" /\ entriesRows = {}
       \/ entriesShape = "legacy" /\ entriesRows \in SUBSET LegacyPool
    /\ everIds = IdsOf(entriesRows)
    /\ LaunchIdle
    /\ ParseIdle
    /\ PageIdle

InitStep ==
    \/ InitLoad \/ InitPragma \/ InitRename \/ InitCreate
    \/ InitCopy \/ InitDrop \/ InitCreateFresh \/ InitFail

\* The calls +page.svelte makes: getGames/getApps, addEntry, deleteEntry, updateEntry
ClientCall ==
    \/ GetEntriesCall \/ AddEntryCall \/ DeleteEntryCall \/ UpdateEntryCall

ClientStep ==
    \/ GetEntriesSelect \/ AddEntryInsert \/ AddEntrySelect
    \/ DeleteEntryExecute \/ UpdateEntryExecute
    \/ CallSettled

\* The application's use of the store, each call made when the one before it
\* has completed
Next ==
    \/ CallIdle /\ InitCall
    \/ ~InitRunning /\ ClientCall
    \/ InitStep \/ ClientStep \/ Tick \/ Restart

Spec == Init /\ [][Next]_vars

\* Every exported function of db.ts, called at any time: also while earlier
\* calls are suspended at an await
NextAsync ==
    \/ InitCall \/ InitStep
    \/ ClientCall \/ ToggleDeprecatedCall
    \/ ClientStep \/ ToggleDeprecatedExecute
    \/ Restart

SpecAsync == Init /\ [][NextAsync]_vars

\* Every exported function of db.ts, each call made when the one before it
\* has completed
NextToggle ==
    \/ CallIdle /\ InitCall
    \/ ~InitRunning /\ ClientCall
    \/ ~InitRunning /\ ToggleDeprecatedCall
    \/ InitStep \/ ClientStep \/ ToggleDeprecatedExecute
    \/ Restart

SpecToggle == Init /\ [][NextToggle]_vars

-----------------------------------------------------------------------------
(* parseArgs and the launch dispatcher (logic.ts:60-177).  A string is the   *)
(* sequence of its characters.                                               *)

Quote == "\""
Space == " "
TabChar == "\t"

\* The characters argsString is drawn from
Chars == {"a", Space, TabChar, Quote}

\* What String.prototype.trim removes
WhiteSpace == {Space, TabChar}

StringsUpTo(n) == UNION {[1..k -> Chars] : k \in 0..n}

\* '--a "b c" --d', '--x' and '--flag "a b"'
ExampleQuoted == <<"-", "-", "a", " ", "\"", "b", " ", "c", "\"", " ", "-", "-", "d">>
ExampleSingle == <<"-", "-", "x">>
ExampleFlag == <<"-", "-", "f", "l", "a", "g", " ", "\"", "a", " ", "b", "\"">>

ArgStrings == StringsUpTo(MaxLen) \cup {ExampleQuoted, ExampleSingle, ExampleFlag}

\* Mutant: a quote is kept in the argument instead of toggling inQuotes
ParseChar_KeepsQuote(st, char) ==
    IF char = Space /\ ~st.inQuotes
    THEN IF st.current # <<>>
         THEN [st EXCEPT !.args = Append(st.args, st.current), !.current = <<>>]
         ELSE st
    ELSE [st EXCEPT !.current = Append(st.current, char)]

\* The body of the loop `for (const char of argsString)`
ParseChar(st, char) ==
    IF char = Quote
    THEN [st EXCEPT !.inQuotes = ~st.inQuotes]
    ELSE IF char = Space /\ ~st.inQuotes
    THEN IF st.current # <<>>
         THEN [st EXCEPT !.args = Append(st.args, st.current), !.current = <<>>]
         ELSE st
    ELSE [st EXCEPT !.current = Append(st.current, char)]

RECURSIVE ParseLoop(_, _)
ParseLoop(st, rest) ==
    IF rest = <<>> THEN st ELSE ParseLoop(ParseChar(st, Head(rest)), Tail(rest))

\* function parseArgs(argsString: string): string[]
parseArgs(argsString) ==
    LET st == ParseLoop([args |-> <<>>, current |-> <<>>, inQuotes |-> FALSE], argsString)
    IN  IF st.current # <<>> THEN Append(st.args, st.current) ELSE st.args

RECURSIVE TrimStart(_)
TrimStart(s) ==
    IF s # <<>> /\ Head(s) \in WhiteSpace THEN TrimStart(Tail(s)) ELSE s

RECURSIVE TrimEnd(_)
TrimEnd(s) ==
    IF s # <<>> /\ s[Len(s)] \in WhiteSpace THEN TrimEnd(SubSeq(s, 1, Len(s) - 1)) ELSE s

\* args.trim()
Trim(s) == TrimEnd(TrimStart(s))

Str_cmd == <<"c", "m", "d">>
Str_c == <<"/", "c">>
Str_start == <<"s", "t", "a", "r", "t">>
Str_steam == <<"s", "t", "e", "a", "m", ":", "/", "/", "r", "u", "n", "g", "a", "m", "e",
               "i", "d", "/">>

\* Command.create(program, args)
Command(program, args) == [program |-> program, args |-> args]

\* Mutant: the argument string is parsed without the trim test
ArgList_NoTrim(args) == parseArgs(args)

\* const argList = args.trim() ? parseArgs(args) : []
ArgList(args) == IF Trim(args) # <<>> THEN parseArgs(args) ELSE <<>>

launchSteam(appId) == Command(Str_cmd, <<Str_c, Str_start, Str_steam \o appId>>)

launchExe(exePath, args) ==
    Command(Str_cmd, <<Str_c, Str_start, <<>>, exePath>> \o ArgList(args))

launchUrl(url) == Command(Str_cmd, <<Str_c, Str_start, url>>)

launchBat(batPath) == Command(Str_cmd, <<Str_c, batPath>>)

\* Mutant: the batch script is started with the entry's arguments
CommandFor_BatArgs(entry) ==
    IF entry.launch_type = "steam" THEN launchSteam(entry.launch_data)
    ELSE IF entry.launch_type = "exe" THEN launchExe(entry.launch_data, entry.launch_args)
    ELSE IF entry.launch_type = "url" THEN launchUrl(entry.launch_data)
    ELSE Command(Str_cmd, <<Str_c, entry.launch_data>> \o ArgList(entry.launch_args))

\* switch (entry.launch_type): the command of the case taken
CommandFor(entry) ==
    IF entry.launch_type = "steam" THEN launchSteam(entry.launch_data)
    ELSE IF entry.launch_type = "exe" THEN launchExe(entry.launch_data, entry.launch_args)
    ELSE IF entry.launch_type = "url" THEN launchUrl(entry.launch_data)
    ELSE launchBat(entry.launch_data)

\* "814380"-like Steam id, and a path
LaunchData == {<<"8", "1">>, <<"C", ":", "/", "g">>}

\* The entries passed to launchEntry; launch_type is a string at run time
LaunchInputs ==
    [launch_type : LaunchTypes \cup {"other"}, launch_data : LaunchData,
     launch_args : ArgStrings]

NoEntry == [launch_type |-> "", launch_data |-> <<>>, launch_args |-> <<>>]

\* setTimeout(async () => { await toggleWindow(true); }, 200)
HideDelay == 200

\* launchEntry(entry): the case of entry.launch_type creates its command and
\* executes it; the default case returns false
LaunchEntry(entry) ==
    /\ lpc = "idle"
    /\ scheduled < MaxLaunches
    /\ lentry' = entry
    /\ IF entry.launch_type \in LaunchTypes
       THEN /\ cmds' = Append(cmds, CommandFor(entry))
            /\ lpc' = "executing"
            /\ lret' = "none"
            /\ lexec' = "pending"
       ELSE /\ cmds' = cmds
            /\ lpc' = "done"
            /\ lret' = "false"
            /\ lexec' = "none"
    /\ UNCHANGED <<timers, scheduled, hides, storeVars, parseVars, pageVars>>

\* launchEntry is called with an entry of the store or of any other shape,
\* up to the first call that schedules a hide
LaunchEntryCall ==
    /\ scheduled = 0
    /\ \E entry \in LaunchInputs : LaunchEntry(entry)

\* Mutant: true is returned without the setTimeout
ExecuteResolves_NoHide ==
    /\ lpc = "executing"
    /\ lpc' = "done"
    /\ lret' = "true"
    /\ lexec' = "resolved"
    /\ UNCHANGED <<lentry, cmds, timers, scheduled, hides, storeVars, parseVars, pageVars>>

\* await command.execute() resolves: the hide is scheduled, return true
ExecuteResolves ==
    /\ lpc = "executing"
    /\ lpc' = "done"
    /\ lret' = "true"
    /\ lexec' = "resolved"
    /\ timers' = Append(timers, HideDelay)
    /\ scheduled' = scheduled + 1
    /\ UNCHANGED <<lentry, cmds, hides, storeVars, parseVars, pageVars>>

\* Mutant: a failed command is executed once more
ExecuteRejects_Retry ==
    /\ lpc = "executing"
    /\ IF Len(cmds) < 2
       THEN cmds' = Append(cmds, CommandFor(lentry)) /\ UNCHANGED <<lpc, lret, lexec>>
       ELSE cmds' = cmds /\ lpc' = "done" /\ lret' = "false" /\ lexec' = "rejected"
    /\ UNCHANGED <<lentry, timers, scheduled, hides, storeVars, parseVars, pageVars>>

\* Mutant: the error of the command is thrown on to the caller
ExecuteRejects_Rethrows ==
    /\ lpc = "executing"
    /\ lpc' = "done"
    /\ lret' = "threw"
    /\ lexec' = "rejected"
    /\ UNCHANGED <<lentry, cmds, timers, scheduled, hides, storeVars, parseVars, pageVars>>

\* await command.execute() rejects: catch (error), return false
ExecuteRejects ==
    /\ lpc = "executing"
    /\ lpc' = "done"
    /\ lret' = "false"
    /\ lexec' = "rejected"
    /\ UNCHANGED <<lentry, cmds, timers, scheduled, hides, storeVars, parseVars, pageVars>>

\* The caller has taken the result; the next call starts with no command issued
LaunchSettled ==
    /\ lpc = "done"
    /\ lpc' = "idle"
    /\ lentry' = NoEntry
    /\ cmds' = <<>>
    /\ lret' = "none"
    /\ lexec' = "none"
    /\ UNCHANGED <<timers, scheduled, hides, storeVars, parseVars, pageVars>>

Max(a, b) == IF a >= b THEN a ELSE b

\* Time passes, half of the delay or all of it: the pending callbacks come nearer
Elapse ==
    /\ \E i \in 1..Len(timers) : timers[i] > 0
    /\ \E d \in {HideDelay \div 2, HideDelay} :
           timers' = [i \in 1..Len(timers) |-> Max(0, timers[i] - d)]
    /\ UNCHANGED <<lentry, lpc, cmds, lret, lexec, scheduled, hides, storeVars, parseVars, pageVars>>

RemoveAt(s, i) == SubSeq(s, 1, i - 1) \o SubSeq(s, i + 1, Len(s))

\* A callback whose delay has passed runs: toggleWindow(true) requests
\* appWindow.hide()
HideTimerFires ==
    /\ \E i \in 1..Len(timers) :
         /\ timers[i] = 0
         /\ timers' = RemoveAt(timers, i)
    /\ hides' = hides + 1
    /\ UNCHANGED <<lentry, lpc, cmds, lret, lexec, scheduled, storeVars, parseVars, pageVars>>

\* parseArgs(argsString) is applied
ParseArgsCall ==
    /\ ppc = "idle"
    /\ pout' = parseArgs(pin)
    /\ ppc' = "done"
    /\ UNCHANGED <<pin, storeVars, launchVars, pageVars>>

StoreIdle ==
    /\ db = FALSE /\ initPc = "idle" /\ call = NoCall /\ deleted = {}
    /\ clock = 0 /\ seq = 0 /\ oldExists = FALSE /\ oldRows = {}
    /\ entriesShape = "none" /\ entriesRows = {}
    /\ everIds = {}

InitLaunch == StoreIdle /\ LaunchIdle /\ ParseIdle /\ PageIdle

NextLaunch == LaunchEntryCall \/ ExecuteResolves \/ ExecuteRejects \/ LaunchSettled

SpecLaunch == InitLaunch /\ [][NextLaunch]_vars

\* The entries of LaunchInputs without launch_args
PlainInputs == {entry \in LaunchInputs : entry.launch_args = <<>>}

LaunchEntryCallPlain == \E entry \in PlainInputs : LaunchEntry(entry)

\* launchEntry, the passing of time and the timer callbacks of the event loop
NextHide ==
    \/ LaunchEntryCallPlain \/ ExecuteResolves \/ ExecuteRejects \/ LaunchSettled
    \/ Elapse \/ HideTimerFires

\* Time passes and a callback that is due is run
SpecHide ==
    InitLaunch /\ [][NextHide]_vars /\ WF_vars(Elapse) /\ WF_vars(HideTimerFires)

InitParse ==
    /\ StoreIdle /\ LaunchIdle /\ PageIdle
    /\ pin \in ArgStrings /\ pout = <<>> /\ ppc = "idle"

NextParse == ParseArgsCall

SpecParse == InitParse /\ [][NextParse]_vars

-----------------------------------------------------------------------------
(* The page (+page.svelte): the form, the lists and the handlers that use    *)
(* the store.  An action is one run of the event loop: a click or key with   *)
(* the synchronous code it starts, or the completion of an awaited statement *)
(* with everything that runs until the next await.                           *)

isEditing == editingEntry # NullEntry

\* The items of the grid that is shown
VisibleItems ==
    IF activeTab = "games" THEN games ELSE IF activeTab = "apps" THEN apps ELSE <<>>

\* function clearForm()
ClearForm ==
    /\ editingEntry' = NullEntry
    /\ formName' = <<>>
    /\ formLaunchData' = <<>>
    /\ formLaunchArgs' = <<>>
    /\ formImage' = ""
    /\ formError' = ""
    /\ UNCHANGED <<formEntryType, formLaunchType>>

\* function startEdit(entry): the edit button of a card of the grid shown
StartEdit ==
    /\ \E i \in 1..Len(VisibleItems) :
         LET entry == VisibleItems[i] IN
         /\ editingEntry' = entry
         /\ formEntryType' = entry.type
         /\ formLaunchType' = entry.launch_type
         /\ formName' = entry.name
         /\ formLaunchData' = entry.launch_data
         /\ formLaunchArgs' = entry.launch_args
         /\ formImage' = entry.image_data
    /\ formError' = ""
    /\ activeTab' = "add"
    /\ UNCHANGED <<storeVars, launchVars, parseVars, listVars, winVars, mountPc, dcall>>

\* function cancelEdit(): the Cancel button, shown while editing
CancelEdit ==
    /\ activeTab = "add"
    /\ isEditing
    /\ ClearForm
    /\ activeTab' = IF formEntryType = "game" THEN "games" ELSE "apps"
    /\ UNCHANGED <<storeVars, launchVars, parseVars, listVars, winVars, mountPc, dcall>>

\* Mutant: switchTab leaves the form as it is
SwitchTab_NoClear ==
    /\ \E t \in {"games", "apps", "add"} :
         /\ activeTab' = t
         /\ selectedGameIndex' = IF t = "games" THEN 0 ELSE selectedGameIndex
         /\ selectedAppIndex' = IF t = "apps" THEN 0 ELSE selectedAppIndex
    /\ UNCHANGED <<formFields, editingEntry>>
    /\ UNCHANGED <<storeVars, launchVars, parseVars, games, apps, winVars, mountPc, dcall>>

\* function switchTab(t): one of the three tab buttons
SwitchTab ==
    /\ \E t \in {"games", "apps", "add"} :
         /\ IF activeTab = "add" /\ t # "add" /\ isEditing
            THEN ClearForm
            ELSE UNCHANGED <<formFields, editingEntry>>
         /\ activeTab' = t
         /\ selectedGameIndex' = IF t = "games" THEN 0 ELSE selectedGameIndex
         /\ selectedAppIndex' = IF t = "apps" THEN 0 ELSE selectedAppIndex
    /\ UNCHANGED <<storeVars, launchVars, parseVars, games, apps, winVars, mountPc, dcall>>

Str_K == <<"K">>
Str_81 == <<"8", "1">>
Str_path == <<"C", ":", "/", "x">>

\* What the user makes of the form: the entry type and launch type chosen, the
\* texts typed and whether an image is picked
FormFills ==
    { [type |-> "game", launch_type |-> "steam", name |-> <<Space, "H">>, data |-> Str_81,
       args |-> <<>>, pick |-> TRUE],
      [type |-> "app", launch_type |-> "exe", name |-> Str_K, data |-> Str_path,
       args |-> <<"-", "f", Space>>, pick |-> TRUE],
      [type |-> "game", launch_type |-> "steam", name |-> <<Space>>, data |-> Str_81,
       args |-> <<>>, pick |-> TRUE],
      [type |-> "game", launch_type |-> "steam", name |-> Str_K, data |-> <<TabChar>>,
       args |-> <<>>, pick |-> TRUE],
      [type |-> "game", launch_type |-> "steam", name |-> Str_K, data |-> Str_path,
       args |-> <<>>, pick |-> TRUE],
      [type |-> "game", launch_type |-> "steam", name |-> Str_K, data |-> Str_81,
       args |-> <<>>, pick |-> FALSE] }

\* The fills handleSaveEntry accepts
ValidFills ==
    {f \in FormFills : f.pick /\ f.name \in {<<Space, "H">>, Str_K}
                               /\ f.data = (IF f.launch_type = "steam" THEN Str_81 ELSE Str_path)}

\* Mutant: the Game and App buttons work while an entry is edited
Fill_TypeWhileEditing(f) ==
    /\ activeTab = "add"
    /\ formEntryType' = f.type
    /\ formLaunchType' = f.launch_type
    /\ formName' = f.name
    /\ formLaunchData' = f.data
    /\ formLaunchArgs' = IF f.launch_type = "exe" THEN f.args
                          ELSE IF f.launch_type # formLaunchType THEN <<>>
                          ELSE formLaunchArgs
    /\ formImage' = IF f.pick THEN "img1" ELSE formImage
    /\ UNCHANGED <<formError, editingEntry, activeTab>>
    /\ UNCHANGED <<storeVars, launchVars, parseVars, listVars, winVars, mountPc, dcall>>

\* The user fills the form: the Game and App buttons (disabled while editing),
\* switchLaunchType(type), which clears the launch data and arguments when the
\* type changes, bind:value of the three inputs (the arguments input is shown
\* for exe only) and handleBrowseImage()
Fill(f) ==
    /\ activeTab = "add"
    /\ formEntryType' = IF isEditing THEN formEntryType ELSE f.type
    /\ formLaunchType' = f.launch_type
    /\ formName' = f.name
    /\ formLaunchData' = f.data
    /\ formLaunchArgs' = IF f.launch_type = "exe" THEN f.args
                          ELSE IF f.launch_type # formLaunchType THEN <<>>
                          ELSE formLaunchArgs
    /\ formImage' = IF f.pick THEN "img1" ELSE formImage
    /\ UNCHANGED <<formError, editingEntry, activeTab>>
    /\ UNCHANGED <<storeVars, launchVars, parseVars, listVars, winVars, mountPc, dcall>>

FillForm == \E f \in FormFills : Fill(f)

FillFormValid == \E f \in ValidFills : Fill(f)

ErrName == "Please enter a name."
ErrImage == "Please select an image."
ErrSteam == "Steam App ID must be a number (e.g., 1245620)."
ErrDatabase == "Database error: Could not save."

\* function getDataFieldError()
getDataFieldError ==
    IF formLaunchType = "steam" THEN "Please enter a Steam App ID."
    ELSE IF formLaunchType = "exe" THEN "Please select an executable."
    ELSE IF formLaunchType = "url" THEN "Please enter a URL."
    ELSE "Please select a batch script."

Digits == {"0", "1", "2", "3", "4", "5", "6", "7", "8", "9"}

\* /^\d+$/.test(s)
IsNumber(s) == s # <<>> /\ \A i \in 1..Len(s) : s[i] \in Digits

\* Mutant: the name is tested without trim()
ValidationError_NoTrim ==
    IF formName = <<>> THEN ErrName
    ELSE IF Trim(formLaunchData) = <<>> THEN getDataFieldError
    ELSE IF formImage = "" THEN ErrImage
    ELSE IF formLaunchType = "steam" /\ ~IsNumber(Trim(formLaunchData)) THEN ErrSteam
    ELSE ""

\* Mutant: the image is not tested
ValidationError_NoImage ==
    IF Trim(formName) = <<>> THEN ErrName
    ELSE IF Trim(formLaunchData) = <<>> THEN getDataFieldError
    ELSE IF formLaunchType = "steam" /\ ~IsNumber(Trim(formLaunchData)) THEN ErrSteam
    ELSE ""

\* The validation of handleSaveEntry: the message of the first test that
\* fails, "" when none does
ValidationError ==
    IF Trim(formName) = <<>> THEN ErrName
    ELSE IF Trim(formLaunchData) = <<>> THEN getDataFieldError
    ELSE IF formImage = "" THEN ErrImage
    ELSE IF formLaunchType = "steam" /\ ~IsNumber(Trim(formLaunchData)) THEN ErrSteam
    ELSE ""

\* The arguments handleSaveEntry passes to addEntry and updateEntry
FormPayload ==
    [name |-> Trim(formName), launch_type |-> formLaunchType,
     launch_data |-> Trim(formLaunchData), launch_args |-> Trim(formLaunchArgs),
     image_data |-> formImage]

\* The store call handleSaveEntry makes
SaveCall ==
    IF isEditing
    THEN Enter("updateEntry", "", editingEntry.id, FormPayload, "execute")
    ELSE Enter("addEntry", formEntryType, 0, FormPayload, "insert")

\* function handleSaveEntry(), up to its await: the Save button of the form.
\* One save waits for the store at a time.
HandleSaveEntry ==
    /\ activeTab = "add"
    /\ CallIdle
    /\ ValidationError # "" \/ isEditing \/ NextRowId(entriesRows, seq) <= MaxId
    /\ IF ValidationError # ""
       THEN formError' = ValidationError /\ UNCHANGED call
       ELSE IF SaveCall.pc = "threw"
       THEN formError' = ErrDatabase /\ UNCHANGED call
       ELSE call' = SaveCall /\ UNCHANGED formError
    /\ UNCHANGED <<formEntryType, formLaunchType, formName, formLaunchData, formLaunchArgs,
                   formImage, editingEntry, activeTab>>
    /\ UNCHANGED <<db, entriesShape, entriesRows, oldExists, oldRows, seq, clock, initPc,
                   deleted, everIds>>
    /\ UNCHANGED <<launchVars, parseVars, listVars, winVars, mountPc, dcall>>

\* catch (e): formError = "Database error: Could not save."
SaveCaught ==
    /\ formError' = ErrDatabase
    /\ call' = NoCall
    /\ UNCHANGED <<formEntryType, formLaunchType, formName, formLaunchData, formLaunchArgs,
                   formImage, editingEntry, activeTab, listVars>>

\* The INSERT of the addEntry call of handleSaveEntry resolves
SaveAddInsert ==
    /\ call.op = "addEntry" /\ call.pc = "insert"
    /\ IF entriesShape # "current"
       THEN /\ SaveCaught
            /\ UNCHANGED <<entriesRows, seq, deleted, everIds>>
       ELSE LET id == NextRowId(entriesRows, seq) IN
            /\ entriesRows' = entriesRows \cup {InsertRow(id, call.type, call.payload, clock)}
            /\ seq' = id
            /\ call' = [call EXCEPT !.pc = "select", !.id = id]
            /\ deleted' = deleted \ {id}
            /\ everIds' = everIds \cup {id}
            /\ UNCHANGED <<formFields, editingEntry, activeTab, listVars>>
    /\ UNCHANGED <<db, entriesShape, oldExists, oldRows, clock, initPc>>
    /\ UNCHANGED <<launchVars, parseVars, winVars, mountPc, dcall>>

\* The SELECT of that addEntry call resolves and handleSaveEntry goes on
\* after its await: the new entry is put in front of the list of the form's
\* entry type
SaveAddSelect ==
    /\ call.op = "addEntry" /\ call.pc = "select"
    /\ LET entries == {r \in entriesRows : r.id = call.id} IN
       IF entriesShape = "none" \/ entries = {}
       THEN SaveCaught
       ELSE \E r \in entries :
              LET newEntry == ToEntry(r) IN
              /\ IF formEntryType = "game"
                 THEN games' = <<newEntry>> \o games /\ activeTab' = "games" /\ UNCHANGED apps
                 ELSE apps' = <<newEntry>> \o apps /\ activeTab' = "apps" /\ UNCHANGED games
              /\ ClearForm
              /\ call' = NoCall
              /\ UNCHANGED <<selectedGameIndex, selectedAppIndex>>
    /\ UNCHANGED <<db, entriesShape, entriesRows, oldExists, oldRows, seq, clock, initPc,
                   deleted, everIds>>
    /\ UNCHANGED <<launchVars, parseVars, winVars, mountPc, dcall>>

\* games.map(g => g.id === editingEntry.id ? updatedEntry : g)
ReplaceById(list, id, entry) ==
    [i \in 1..Len(list) |-> IF list[i].id = id THEN entry ELSE list[i]]

\* The UPDATE of the updateEntry call of handleSaveEntry resolves and
\* handleSaveEntry goes on after its await with the editingEntry and the form
\* of that moment
SaveUpdateExecute ==
    /\ call.op = "updateEntry" /\ call.pc = "execute"
    /\ IF entriesShape # "current"
       THEN SaveCaught /\ UNCHANGED entriesRows
       ELSE /\ entriesRows' = UpdateRows(entriesRows, call.id, call.payload)
            /\ IF editingEntry = NullEntry
               THEN SaveCaught
               ELSE LET updatedEntry ==
                          [editingEntry EXCEPT !.name = Trim(formName),
                                               !.launch_type = formLaunchType,
                                               !.launch_data = Trim(formLaunchData),
                                               !.launch_args = Trim(formLaunchArgs),
                                               !.image_data = formImage]
                    IN  /\ IF editingEntry.type = "game"
                           THEN /\ games' = ReplaceById(games, editingEntry.id, updatedEntry)
                                /\ activeTab' = "games"
                                /\ UNCHANGED apps
                           ELSE /\ apps' = ReplaceById(apps, editingEntry.id, updatedEntry)
                                /\ activeTab' = "apps"
                                /\ UNCHANGED games
                        /\ ClearForm
                        /\ call' = NoCall
                        /\ UNCHANGED <<selectedGameIndex, selectedAppIndex>>
    /\ UNCHANGED <<db, entriesShape, oldExists, oldRows, seq, clock, initPc, deleted, everIds>>
    /\ UNCHANGED <<launchVars, parseVars, winVars, mountPc, dcall>>

\* function handleDelete(entry), up to its await: the delete button of a card
\* of the grid shown, confirmed.  One delete waits for the store at a time;
\* if (!db) deleteEntry throws and nothing has happened.
HandleDelete ==
    /\ dcall.pc = "none"
    /\ db
    /\ \E i \in 1..Len(VisibleItems) : dcall' = [pc |-> "execute", entry |-> VisibleItems[i]]
    /\ UNCHANGED <<storeVars, launchVars, parseVars, formFields, editingEntry, activeTab,
                   listVars, winVars, mountPc>>

\* list.filter(g => g.id !== entry.id)
FilterOut(list, id) == SelectSeq(list, LAMBDA g : g.id # id)

\* Mutant: the selection is not clamped
ClampIndex_Keeps(index, list) == index

\* if (selectedIndex >= list.length) selectedIndex = Math.max(0, list.length - 1)
ClampIndex(index, list) == IF index >= Len(list) THEN Max(0, Len(list) - 1) ELSE index

\* The DELETE of the deleteEntry call of handleDelete resolves and handleDelete
\* goes on after its await; a rejected DELETE ends the handler
HandleDeleteExecute ==
    /\ dcall.pc = "execute"
    /\ dcall' = NoDelete
    /\ IF entriesShape = "none"
       THEN UNCHANGED <<entriesRows, deleted, listVars>>
       ELSE /\ entriesRows' = DeleteRows(entriesRows, dcall.entry.id)
            /\ deleted' = deleted \cup {dcall.entry.id}
            /\ IF dcall.entry.type = "game"
               THEN /\ games' = FilterOut(games, dcall.entry.id)
                    /\ selectedGameIndex' = ClampIndex(selectedGameIndex, games')
                    /\ UNCHANGED <<apps, selectedAppIndex>>
               ELSE /\ apps' = FilterOut(apps, dcall.entry.id)
                    /\ selectedAppIndex' = ClampIndex(selectedAppIndex, apps')
                    /\ UNCHANGED <<games, selectedGameIndex>>
    /\ UNCHANGED <<db, entriesShape, oldExists, oldRows, seq, clock, initPc, call, everIds>>
    /\ UNCHANGED <<launchVars, parseVars, formFields, editingEntry, activeTab, winVars, mountPc>>

\* onMount: register(...) has resolved, the theme is read, initDatabase() is called
MountInitDatabase ==
    /\ mountPc = "register"
    /\ mountPc' = "init"
    /\ initPc' = "load"
    /\ UNCHANGED <<db, entriesShape, entriesRows, oldExists, oldRows, seq, clock, call, deleted,
                   everIds>>
    /\ UNCHANGED <<launchVars, parseVars, formFields, editingEntry, activeTab, listVars,
                   winVars, dcall>>

\* onMount: games = await getGames(), after initDatabase() has resolved
MountGetGames ==
    /\ mountPc = "init"
    /\ initPc = "done"
    /\ IF entriesShape = "none"
       THEN mountPc' = "failed" /\ UNCHANGED games
       ELSE /\ mountPc' = "apps"
            /\ \E rows \in OrderByCreatedAtDesc(SelectByType(entriesRows, "game")) :
                   games' = MapToEntry(rows)
    /\ UNCHANGED <<storeVars, launchVars, parseVars, formFields, editingEntry, activeTab,
                   apps, selectedGameIndex, selectedAppIndex, winVars, dcall>>

\* onMount: apps = await getApps(); toggleWindow(false) is called
MountGetApps ==
    /\ mountPc = "apps"
    /\ IF entriesShape = "none"
       THEN mountPc' = "failed" /\ UNCHANGED apps
       ELSE /\ mountPc' = "show"
            /\ \E rows \in OrderByCreatedAtDesc(SelectByType(entriesRows, "app")) :
                   apps' = MapToEntry(rows)
    /\ UNCHANGED <<storeVars, launchVars, parseVars, formFields, editingEntry, activeTab,
                   games, selectedGameIndex, selectedAppIndex, winVars, dcall>>

\* toggleWindow(false) of onMount: await appWindow.show() resolves
MountShow ==
    /\ mountPc = "show"
    /\ mountPc' = "focus"
    /\ winVisible' = TRUE
    /\ UNCHANGED <<storeVars, launchVars, parseVars, formFields, editingEntry, activeTab,
                   listVars, isOpen, launchingItem, launching, toggling, dcall>>

\* toggleWindow(false) of onMount: await appWindow.setFocus() resolves, true is
\* returned; isOpen = true; the keydown listener is added
MountFocus ==
    /\ mountPc = "focus"
    /\ mountPc' = "done"
    /\ isOpen' = TRUE
    /\ UNCHANGED <<storeVars, launchVars, parseVars, formFields, editingEntry, activeTab,
                   listVars, winVisible, launchingItem, launching, toggling, dcall>>

\* The component is created on the first start of the application and the
\* onMount callback waits for register(...)
InitForm ==
    /\ db = FALSE
    /\ initPc = "idle"
    /\ call = NoCall
    /\ deleted = {}
    /\ clock = 0
    /\ seq = 0
    /\ oldExists = FALSE
    /\ oldRows = {}
    /\ \/ entriesShape = "none" /\ entriesRows = {}
       \/ entriesShape = "legacy" /\ entriesRows \in SUBSET LegacyPool
    /\ everIds = IdsOf(entriesRows)
    /\ LaunchIdle
    /\ ParseIdle
    /\ isOpen = FALSE
    /\ winVisible = FALSE
    /\ activeTab = "games"
    /\ games = <<>>
    /\ apps = <<>>
    /\ launchingItem = {}
    /\ launching = <<>>
    /\ toggling = "none"
    /\ FormInitial
    /\ editingEntry = NullEntry
    /\ selectedGameIndex = 0
    /\ selectedAppIndex = 0
    /\ mountPc = "register"
    /\ dcall = NoDelete

\* The first start on a fresh installation or over a small legacy table
InitPage ==
    /\ InitForm
    /\ Cardinality(entriesRows) <= 1

MountStep ==
    \/ MountInitDatabase \/ MountGetGames \/ MountGetApps \/ MountShow \/ MountFocus

\* The statements of initDatabase as they resolve
InitStatement ==
    \/ InitLoad \/ InitPragma \/ InitRename \/ InitCreate
    \/ InitCopy \/ InitDrop \/ InitCreateFresh

SaveStep == SaveAddInsert \/ SaveAddSelect \/ SaveUpdateExecute

\* onMount has completed and no handler waits for the store
PageQuiet == mountPc = "done" /\ call.pc = "none" /\ dcall.pc = "none"

\* The page with its store, used by one action at a time: startup, then the
\* user acts when no handler is waiting
NextForm ==
    \/ MountStep \/ InitStatement
    \/ PageQuiet /\ StartEdit
    \/ PageQuiet /\ CancelEdit
    \/ PageQuiet /\ SwitchTab
    \/ PageQuiet /\ FillForm
    \/ PageQuiet /\ HandleSaveEntry
    \/ PageQuiet /\ HandleDelete
    \/ SaveStep \/ HandleDeleteExecute

SpecForm == InitForm /\ [][NextForm]_vars

\* The page with its store, the user acting at any time once onMount has
\* shown the window (it starts hidden): also while handlers wait at an await
NextPage ==
    \/ MountStep \/ InitStatement
    \/ winVisible /\ StartEdit
    \/ winVisible /\ CancelEdit
    \/ winVisible /\ SwitchTab
    \/ winVisible /\ FillFormValid
    \/ winVisible /\ HandleSaveEntry
    \/ winVisible /\ HandleDelete
    \/ SaveStep \/ HandleDeleteExecute

SpecPage == InitPage /\ [][NextPage]_vars

\* getGridColumns(): the number of columns of the grid shown, 4 without a grid
GridColumns == {1, 2, 4}

\* The selection after an arrow key, for a grid of n items in cols columns
ArrowTarget(key, index, n, cols) ==
    IF key = "ArrowRight" THEN (IF index < n - 1 THEN index + 1 ELSE index)
    ELSE IF key = "ArrowLeft" THEN (IF index > 0 THEN index - 1 ELSE index)
    ELSE IF key = "ArrowDown" THEN (IF index + cols < n THEN index + cols ELSE index)
    ELSE (IF index - cols >= 0 THEN index - cols ELSE index)

\* handleKeyDown, the four arrow keys: on the games or apps tab with a grid
\* that is not empty
ArrowKey ==
    /\ winVisible
    /\ activeTab # "add"
    /\ Len(VisibleItems) > 0
    /\ \E key \in {"ArrowRight", "ArrowLeft", "ArrowDown", "ArrowUp"}, cols \in GridColumns :
         IF activeTab = "games"
         THEN /\ selectedGameIndex' =
                    ArrowTarget(key, selectedGameIndex, Len(games), cols)
              /\ UNCHANGED selectedAppIndex
         ELSE /\ selectedAppIndex' =
                    ArrowTarget(key, selectedAppIndex, Len(apps), cols)
              /\ UNCHANGED selectedGameIndex
    /\ UNCHANGED <<storeVars, launchVars, parseVars, formFields, editingEntry, activeTab,
                   games, apps, winVars, mountPc, dcall>>

\* on:mouseenter of the card i of the grid shown
Hover ==
    /\ winVisible
    /\ \E i \in 0..(Len(VisibleItems) - 1) :
         IF activeTab = "games"
         THEN selectedGameIndex' = i /\ UNCHANGED selectedAppIndex
         ELSE selectedAppIndex' = i /\ UNCHANGED selectedGameIndex
    /\ UNCHANGED <<storeVars, launchVars, parseVars, formFields, editingEntry, activeTab,
                   games, apps, winVars, mountPc, dcall>>

\* handleKeyDown, Tab and Shift+Tab: the other of the games and apps tabs
TabKey ==
    /\ winVisible
    /\ activeTab # "add"
    /\ activeTab' = IF activeTab = "games" THEN "apps" ELSE "games"
    /\ UNCHANGED <<storeVars, launchVars, parseVars, formFields, editingEntry, listVars,
                   winVars, mountPc, dcall>>

\* The page with its store, used by one action at a time, with the keys and
\* the mouse that move the selection
NextGrid ==
    \/ MountStep \/ InitStatement
    \/ PageQuiet /\ StartEdit
    \/ PageQuiet /\ CancelEdit
    \/ PageQuiet /\ SwitchTab
    \/ PageQuiet /\ FillFormValid
    \/ PageQuiet /\ HandleSaveEntry
    \/ PageQuiet /\ HandleDelete
    \/ PageQuiet /\ ArrowKey
    \/ PageQuiet /\ Hover
    \/ PageQuiet /\ TabKey
    \/ SaveStep \/ HandleDeleteExecute

SpecGrid == InitForm /\ [][NextGrid]_vars

\* The rows of a store after the form has added an application and a Steam game
WindowRows ==
    { InsertRow(1, "app", [name |-> Str_K, launch_type |-> "exe", launch_data |-> Str_path,
                           launch_args |-> <<"-", "f">>, image_data |-> "img1"], 0),
      InsertRow(2, "game", [name |-> <<"H">>, launch_type |-> "steam", launch_data |-> Str_81,
                            launch_args |-> <<>>, image_data |-> "img1"], 0) }

\* function handleLaunch(item), up to its await: launchingItem = item.name and
\* launchEntry(item) creates the command of the entry and waits for its execution
HandleLaunch(item) ==
    /\ scheduled + Len(launching) < MaxLaunches
    /\ launchingItem' = {item.name}
    /\ launching' = Append(launching, item)
    /\ UNCHANGED <<isOpen, winVisible, toggling>>
    /\ UNCHANGED <<storeVars, launchVars, parseVars, formFields, editingEntry, activeTab,
                   listVars, mountPc, dcall>>

\* on:click of the play button of a game card and of an app card
ClickLaunch ==
    /\ winVisible
    /\ \E i \in 1..Len(VisibleItems) : HandleLaunch(VisibleItems[i])

\* handleKeyDown, case "Enter": if (item && !launchingItem) handleLaunch(item)
PressEnter ==
    /\ winVisible
    /\ activeTab # "add"
    /\ LET selectedIndex == IF activeTab = "games" THEN selectedGameIndex ELSE selectedAppIndex
       IN  /\ selectedIndex + 1 \in 1..Len(VisibleItems)
           /\ launchingItem = {}
           /\ HandleLaunch(VisibleItems[selectedIndex + 1])

\* The command of a waiting launchEntry call has run: launchEntry schedules
\* the hide and returns true; handleLaunch goes on after its await
LaunchSucceeds ==
    /\ \E i \in 1..Len(launching) : launching' = RemoveAt(launching, i)
    /\ timers' = Append(timers, HideDelay)
    /\ scheduled' = scheduled + 1
    /\ launchingItem' = {}
    /\ isOpen' = FALSE
    /\ UNCHANGED <<winVisible, toggling, lentry, lpc, cmds, lret, lexec, hides>>
    /\ UNCHANGED <<storeVars, parseVars, formFields, editingEntry, activeTab, listVars,
                   mountPc, dcall>>

\* The command of a waiting launchEntry call could not be run: launchEntry
\* catches the error and returns false; handleLaunch goes on after its await
LaunchFails ==
    /\ \E i \in 1..Len(launching) : launching' = RemoveAt(launching, i)
    /\ launchingItem' = {}
    /\ isOpen' = FALSE
    /\ UNCHANGED <<winVisible, toggling>>
    /\ UNCHANGED <<storeVars, launchVars, parseVars, formFields, editingEntry, activeTab,
                   listVars, mountPc, dcall>>

\* A callback of setTimeout whose delay has passed runs toggleWindow(true):
\* appWindow.hide()
HideTimerHides ==
    /\ \E i \in 1..Len(timers) :
         /\ timers[i] = 0
         /\ timers' = RemoveAt(timers, i)
    /\ hides' = hides + 1
    /\ winVisible' = FALSE
    /\ UNCHANGED <<isOpen, launchingItem, launching, toggling>>
    /\ UNCHANGED <<lentry, lpc, cmds, lret, lexec, scheduled>>
    /\ UNCHANGED <<storeVars, parseVars, formFields, editingEntry, activeTab, listVars,
                   mountPc, dcall>>

\* handleKeyDown, Escape: if (isOpen) { toggleWindow(true); isOpen = false }
PressEscape ==
    /\ winVisible
    /\ isOpen
    /\ winVisible' = FALSE
    /\ isOpen' = FALSE
    /\ UNCHANGED <<launchingItem, launching, toggling>>
    /\ UNCHANGED <<storeVars, launchVars, parseVars, formFields, editingEntry, activeTab,
                   listVars, mountPc, dcall>>

\* The callback of Ctrl+Shift+F12 calls toggleWindow(isOpen), which waits for
\* appWindow.hide() or for appWindow.show(); one call at a time
HotkeyPressed ==
    /\ toggling = "none"
    /\ toggling' = IF isOpen THEN "hide" ELSE "show"
    /\ UNCHANGED <<isOpen, winVisible, launchingItem, launching>>
    /\ UNCHANGED <<storeVars, launchVars, parseVars, formFields, editingEntry, activeTab,
                   listVars, mountPc, dcall>>

\* await appWindow.hide() resolves, toggleWindow returns false: isOpen = false
ToggleHidden ==
    /\ toggling = "hide"
    /\ toggling' = "none"
    /\ winVisible' = FALSE
    /\ isOpen' = FALSE
    /\ UNCHANGED <<launchingItem, launching>>
    /\ UNCHANGED <<storeVars, launchVars, parseVars, formFields, editingEntry, activeTab,
                   listVars, mountPc, dcall>>

\* await appWindow.show() resolves
ToggleShown ==
    /\ toggling = "show"
    /\ toggling' = "focus"
    /\ winVisible' = TRUE
    /\ UNCHANGED <<isOpen, launchingItem, launching>>
    /\ UNCHANGED <<storeVars, launchVars, parseVars, formFields, editingEntry, activeTab,
                   listVars, mountPc, dcall>>

\* await appWindow.setFocus() resolves, toggleWindow returns true: isOpen = true
ToggleFocused ==
    /\ toggling = "focus"
    /\ toggling' = "none"
    /\ isOpen' = TRUE
    /\ UNCHANGED <<winVisible, launchingItem, launching>>
    /\ UNCHANGED <<storeVars, launchVars, parseVars, formFields, editingEntry, activeTab,
                   listVars, mountPc, dcall>>

\* The page after onMount has completed on a store of two entries: the window
\* is shown with the games grid
InitWindow ==
    /\ db = TRUE
    /\ initPc = "done"
    /\ call = NoCall
    /\ deleted = {}
    /\ clock = 0
    /\ seq = 2
    /\ oldExists = FALSE
    /\ oldRows = {}
    /\ entriesShape = "current"
    /\ entriesRows = WindowRows
    /\ everIds = IdsOf(WindowRows)
    /\ LaunchIdle
    /\ ParseIdle
    /\ isOpen = TRUE
    /\ winVisible = TRUE
    /\ activeTab = "games"
    /\ games \in {MapToEntry(rows) : rows \in OrderByCreatedAtDesc(SelectByType(WindowRows, "game"))}
    /\ apps \in {MapToEntry(rows) : rows \in OrderByCreatedAtDesc(SelectByType(WindowRows, "app"))}
    /\ launchingItem = {}
    /\ launching = <<>>
    /\ toggling = "none"
    /\ FormInitial
    /\ editingEntry = NullEntry
    /\ selectedGameIndex = 0
    /\ selectedAppIndex = 0
    /\ mountPc = "done"
    /\ dcall = NoDelete

\* The window, the launches of the page and the timers of the event loop
NextWindow ==
    \/ winVisible /\ SwitchTab
    \/ ClickLaunch \/ PressEnter \/ LaunchSucceeds \/ LaunchFails
    \/ Elapse \/ HideTimerHides
    \/ PressEscape
    \/ HotkeyPressed \/ ToggleHidden \/ ToggleShown \/ ToggleFocused

SpecWindow == InitWindow /\ [][NextWindow]_vars

-----------------------------------------------------------------------------
(* Properties of the entry store *)

\* What getEntries(type) can return in the present state of the store
GetEntriesResults(type) ==
    {MapToEntry(rows) : rows \in OrderByCreatedAtDesc(SelectByType(entriesRows, type))}

Elems(s) == {s[i] : i \in 1..Len(s)}

AddReturned == call.op = "addEntry" /\ call.pc = "returned"

\* C1: when addEntry has returned, the entry it returned has the type, name,
\* launch_type, launch_data, launch_args and image_data that were passed, an id
\* and a created_at, and every list getEntries can return for that category
\* now contains this entry.
C1_AddThenList ==
    AddReturned =>
        LET e == call.ret[1] IN
        /\ Len(call.ret) = 1
        /\ e.type = call.type
        /\ e.name = call.payload.name
        /\ e.launch_type = call.payload.launch_type
        /\ e.launch_data = call.payload.launch_data
        /\ e.launch_args = call.payload.launch_args
        /\ e.image_data = call.payload.image_data
        /\ e.id \in 1..MaxId
        /\ e.created_at \in 0..clock
        /\ GetEntriesResults(call.type) # {}
        /\ \A list \in GetEntriesResults(call.type) : e \in Elems(list)

\* An addEntry has returned its entry into a store that holds another entry
C1_Witness ==
    /\ AddReturned
    /\ call.payload.launch_args # <<>>
    /\ Cardinality(entriesRows) = 2

\* The step in which the UPDATE of updateEntry has been executed
UpdateExecuted ==
    call.op = "updateEntry" /\ call.pc = "execute" /\ call'.pc = "returned"

UpdateFrame ==
    UpdateExecuted /\ call.id \in IdsOf(entriesRows) =>
        /\ IdsOf(entriesRows') = IdsOf(entriesRows)
        /\ Cardinality(entriesRows') = Cardinality(entriesRows)
        /\ \A r \in entriesRows :
             IF r.id = call.id
             THEN \E u \in entriesRows' :
                    /\ u.id = r.id /\ u.type = r.type
                    /\ u.deprecated = r.deprecated /\ u.created_at = r.created_at
                    /\ u.name = call.payload.name
                    /\ u.launch_type = call.payload.launch_type
                    /\ u.launch_data = call.payload.launch_data
                    /\ u.launch_args = call.payload.launch_args
                    /\ u.image_data = call.payload.image_data
             ELSE r \in entriesRows'

\* C2: updateEntry(id, ...) on a stored id sets name, launch_type, launch_data,
\* launch_args and image_data of that row to the values passed, keeps its id,
\* type, deprecated and created_at, and keeps every other row as it is.
C2_UpdateFrame == [][UpdateFrame]_vars

\* An update has changed one of two stored rows, a deprecated one being stored
C2_Witness ==
    /\ call.op = "updateEntry" /\ call.pc = "returned"
    /\ Cardinality(entriesRows) = 2
    /\ \E r \in entriesRows : r.id = call.id /\ r.name = call.payload.name
    /\ \E r \in entriesRows : r.id # call.id /\ r.name # call.payload.name
    /\ \E r \in entriesRows : r.deprecated = 1

\* The step in which the DELETE of deleteEntry is executed
DeleteExecuted ==
    call.op = "deleteEntry" /\ call.pc = "execute" /\ call'.pc \in {"returned", "threw"}

SecondDeleteNoOp ==
    DeleteExecuted /\ call.id \in deleted /\ entriesShape # "none" =>
        /\ call'.pc = "returned"
        /\ UNCHANGED <<entriesShape, entriesRows, oldExists, oldRows, seq>>

\* C3: no stored row and no list returned by getEntries has an id that a
\* deleteEntry removed, until an add produces that id; and deleteEntry on such
\* an id (a second delete) returns without error and changes nothing in the
\* store, while the table exists.
C3_DeleteThenList ==
    /\ [](deleted \cap IdsOf(entriesRows) = {})
    /\ [](call.op = "getEntries" /\ call.pc = "returned" =>
            \A e \in Elems(call.ret) : e.id \notin deleted)
    /\ [][SecondDeleteNoOp]_vars

\* getEntries has returned the entries left after a deleteEntry
C3_Witness ==
    /\ call.op = "getEntries" /\ call.pc = "returned"
    /\ Len(call.ret) > 0
    /\ deleted # {}
    /\ \E id \in deleted : id < MaxOf(IdsOf(entriesRows))

\* The step that completes a migration: DROP TABLE entries_old has been executed
MigrationCompleted == initPc = "drop" /\ initPc' = "done"

MigrationRenamed ==
    initPc = "rename" /\ initPc' = "create" =>
        entriesShape = "legacy" /\ oldRows' = entriesRows

MigrationKeepsOld ==
    initPc \in {"create", "copy"} /\ initPc' \in {"copy", "drop"} =>
        oldExists' /\ oldRows' = oldRows

MigrationResult ==
    MigrationCompleted =>
        /\ entriesShape' = "current"
        /\ ~oldExists'
        /\ Cardinality(entriesRows') = Cardinality(oldRows)
        /\ \A r \in entriesRows' : r.launch_type = "bat"
        /\ \A l \in oldRows : \E r \in entriesRows' :
               r.id = l.id /\ r.launch_type = "bat" /\ r.launch_data = l.bat_path

\* C4: the migration renames the legacy table with its N rows to entries_old
\* and keeps those rows until it completes; when it completes, entries has the
\* current shape and exactly N rows, one for each legacy row, with launch_type
\* 'bat' and launch_data equal to that row's bat_path, and entries_old is gone.
C4_Migration ==
    /\ [][MigrationRenamed]_vars
    /\ [][MigrationKeepsOld]_vars
    /\ [][MigrationResult]_vars

\* initDatabase has completed the migration of a legacy table with two rows
C4_Witness ==
    /\ initPc = "done"
    /\ entriesShape = "current"
    /\ ~oldExists
    /\ Cardinality(entriesRows) = 2
    /\ \A r \in entriesRows : r.launch_type = "bat"
    /\ call.pc = "none" /\ deleted = {}

\* A step of the initDatabase call
InitStepTaken == initPc # "idle" /\ initPc' # initPc /\ initPc' # "idle"

InitOnCurrentSchema ==
    InitStepTaken /\ entriesShape = "current" /\ initPc \in {"load", "pragma"} =>
        /\ UNCHANGED <<entriesShape, entriesRows, oldExists, oldRows, seq>>
        /\ initPc = "pragma" => initPc' \in {"done", "failed"}

\* C5: once initDatabase has completed the table entries has the current
\* schema; and a call of initDatabase that finds the current schema creates,
\* renames, drops and modifies nothing and completes right after the schema
\* inspection: a second call leaves the tables and rows as the first left them.
C5_InitIdempotent ==
    /\ [](initPc = "done" => entriesShape = "current")
    /\ [][InitOnCurrentSchema]_vars

\* A further call of initDatabase has opened the database and inspects a table
\* of the current schema that holds entries added after the first call
C5_Witness ==
    /\ initPc = "pragma"
    /\ entriesShape = "current"
    /\ \E r \in entriesRows : r.launch_type # "bat"

\* A store call is made by the client
ClientCalled == call.pc = "none" /\ call'.pc # "none"

NotInitializedThrown ==
    ClientCalled /\ initPc # "done" =>
        call'.pc = "threw" /\ call'.err = NotInitialized

\* C6: every store call other than initDatabase that is made before
\* initDatabase has completed fails with 'Database not initialized'.
C6_NotInitialized == [][NotInitializedThrown]_vars

GetEntriesReturned == call.op = "getEntries" /\ call.pc = "returned"

\* The entry e is the stored row r, all columns, with deprecated as a boolean
IsEntryOf(e, r) == e = [r EXCEPT !.deprecated = (r.deprecated = 1)]

\* C13: the list getEntries(category) has returned holds every stored entry
\* of that category once, no entry of the other category and nothing that is
\* not stored, with created_at descending; it is empty when the category has
\* no entry.
C13_ListByCategory ==
    GetEntriesReturned =>
        LET ret == call.ret
            stored == {r \in entriesRows : r.type = call.type}
        IN  /\ Len(ret) = Cardinality(stored)
            /\ \A r \in stored : \E i \in 1..Len(ret) : IsEntryOf(ret[i], r)
            /\ \A i \in 1..Len(ret) :
                 ret[i].type = call.type /\ \E r \in stored : IsEntryOf(ret[i], r)
            /\ \A i, j \in 1..Len(ret) : i < j => ret[i].created_at >= ret[j].created_at
            /\ stored = {} => ret = <<>>

\* getEntries has returned two entries of its category, the newer one first
C13_Witness ==
    /\ GetEntriesReturned
    /\ Len(call.ret) = 2
    /\ call.ret[1].created_at > call.ret[2].created_at

\* The statement of updateEntry, deleteEntry or toggleDeprecated is executed
\* for an id no stored row has
AbsentIdExecuted ==
    /\ call.op \in {"updateEntry", "deleteEntry", "toggleDeprecated"}
    /\ call.pc = "execute"
    /\ call'.pc \in {"returned", "threw"}
    /\ call.id \notin IdsOf(entriesRows)

AbsentIdNoOp ==
    AbsentIdExecuted /\ initPc = "done" =>
        /\ call'.pc = "returned"
        /\ call'.err = ""
        /\ UNCHANGED <<entriesShape, entriesRows, oldExists, oldRows, seq>>

\* C14: on a store initDatabase has completed on, updateEntry, deleteEntry
\* and toggleDeprecated with an id no stored row has return without error and
\* leave the tables and every row as they were.
C14_AbsentIdNoOp == [][AbsentIdNoOp]_vars

\* toggleDeprecated has returned for an id that is not among the stored rows
C14_Witness ==
    /\ call.op = "toggleDeprecated" /\ call.pc = "returned"
    /\ initPc = "done"
    /\ entriesRows # {}
    /\ call.id \notin IdsOf(entriesRows)

\* A toggleDeprecated call whose UPDATE has resolved
ToggleExecuted ==
    /\ call.op = "toggleDeprecated"
    /\ call.pc = "execute"
    /\ call'.pc = "returned"

\* The UPDATE negates the flag of the row with the id and nothing else, and
\* the same UPDATE applied to its result gives back the rows it started from
ToggleFlipsOne ==
    ToggleExecuted =>
        /\ \A r \in entriesRows : r.id # call.id => r \in entriesRows'
        /\ \A r \in entriesRows : r.id = call.id =>
               [r EXCEPT !.deprecated = 1 - r.deprecated] \in entriesRows'
        /\ Cardinality(entriesRows') = Cardinality(entriesRows)
        /\ ToggleRows(entriesRows', call.id) = entriesRows
        /\ UNCHANGED <<entriesShape, oldExists, oldRows, seq>>

\* C21: toggleDeprecated(id) flips the deprecated flag of the entry with that
\* id and changes no other field and no other entry; applying it twice
\* restores the original store
C21_ToggleFlipsOne == [][ToggleFlipsOne]_vars

\* toggleDeprecated has returned for a stored id, the flag of that row is set
\* and another row has kept its cleared flag
C21_Witness ==
    /\ call.op = "toggleDeprecated"
    /\ call.pc = "returned"
    /\ \E r \in entriesRows : r.id = call.id /\ r.deprecated = 1
    /\ \E r \in entriesRows : r.id # call.id /\ r.deprecated = 0

\* The copy statement of the migration has resolved
MigrationCopied == initPc = "copy" /\ initPc' = "drop"

\* The row of the new table that has the id of a legacy row has its type,
\* name, image_data, deprecated and created_at, and no launch arguments
CarriedOver(r, rows) ==
    \E q \in rows :
        /\ q.id = r.id
        /\ q.type = r.type
        /\ q.name = r.name
        /\ q.image_data = r.image_data
        /\ q.deprecated = r.deprecated
        /\ q.created_at = r.created_at
        /\ q.launch_args = <<>>

MigrationCarriesColumns ==
    MigrationCopied =>
        /\ \A r \in oldRows : CarriedOver(r, entriesRows')
        /\ Cardinality(entriesRows') = Cardinality(entriesRows) + Cardinality(oldRows)

\* C23: the migration carries every other column of each legacy row over
\* unchanged: the migrated row has the id, type, name, image_data, deprecated
\* and created_at of the legacy row, and launch_args is the empty string
C23_MigrationCarriesColumns == [][MigrationCarriesColumns]_vars

\* A migration has copied two legacy rows, one of them deprecated
C23_Witness ==
    /\ initPc = "drop"
    /\ Cardinality(oldRows) = 2
    /\ \E q \in entriesRows : q.deprecated = 1 /\ q.launch_type = "bat"
    /\ \A r \in oldRows : CarriedOver(r, entriesRows)

\* C30: when a migration has failed after the rename, after the create or
\* after the copy and initDatabase is run again, then once that run has
\* completed the entries table holds every row of the original legacy table.
\* everIds holds the ids of the legacy rows from the first start on; rows
\* that deleteEntry has removed are left aside.
C30_NoLegacyRowLost ==
    initPc = "done" /\ deleted = {} => everIds \subseteq IdsOf(entriesRows)

\* The ids of the stored rows are pairwise distinct
IdsDistinct == \A r1, r2 \in entriesRows : r1.id = r2.id => r1 = r2

\* An id appears among the stored rows only with the INSERT of addEntry or with
\* the copy of the legacy rows: no statement gives a stored row another id
IdsStable ==
    IdsOf(entriesRows') \ IdsOf(entriesRows) # {} =>
        \/ call.op = "addEntry" /\ call.pc = "insert" /\ call'.pc = "select"
        \/ initPc = "copy" /\ initPc' = "drop" /\ IdsOf(entriesRows') \subseteq IdsOf(oldRows)

\* The INSERT of addEntry is executed
AddInserted == call.op = "addEntry" /\ call.pc = "insert" /\ call'.pc = "select"

\* The id addEntry assigns is one no row of the table has had
AddTakesFreshId == AddInserted => call'.id \notin everIds

\* C20: the ids of the stored entries are pairwise distinct, no operation
\* changes the id of a stored entry, and the id addEntry assigns is none that
\* an entry of the store has had before, deleted entries and migrated legacy
\* rows included.
C20_IdsUniqueForever ==
    /\ []IdsDistinct
    /\ [][IdsStable]_vars
    /\ [][AddTakesFreshId]_vars

-----------------------------------------------------------------------------
(* Properties of parseArgs and of the launch dispatcher *)

\* C7: a call of launchEntry has issued at most one command at any time; when
\* it has completed it has issued exactly one for steam, exe, url and bat, the
\* one of that launch type, and none for any other launch_type, also when the
\* command failed.
C7_OneCommandPerCall ==
    /\ Len(cmds) <= 1
    /\ lpc = "idle" => cmds = <<>>
    /\ lpc \in {"executing", "done"} =>
         /\ Len(cmds) = (IF lentry.launch_type \in LaunchTypes THEN 1 ELSE 0)
         /\ cmds # <<>> =>
              /\ cmds[1].program = Str_cmd
              /\ lentry.launch_type = "steam" =>
                   Len(cmds[1].args) = 3 /\ cmds[1].args[3] = Str_steam \o lentry.launch_data
              /\ lentry.launch_type = "url" =>
                   Len(cmds[1].args) = 3 /\ cmds[1].args[3] = lentry.launch_data
              /\ lentry.launch_type = "exe" =>
                   Len(cmds[1].args) >= 4 /\ cmds[1].args[4] = lentry.launch_data
              /\ lentry.launch_type = "bat" =>
                   Len(cmds[1].args) = 2 /\ cmds[1].args[2] = lentry.launch_data

\* A launch whose command failed has completed with false
C7_Witness ==
    /\ lpc = "done" /\ lret = "false"
    /\ lentry.launch_type = "exe"
    /\ Len(cmds) = 1

\* The position of s at index i lies inside double quotes: an odd number of
\* quote characters precedes it
InsideQuotes(s, i) == Cardinality({j \in 1..(i - 1) : s[j] = Quote}) % 2 = 1

\* s[i] separates arguments: one of the separator characters, outside quotes
Separates(s, i, seps) == s[i] \in seps /\ ~InsideQuotes(s, i)

\* s[i] belongs to an argument: neither a quote nor a separator
InArgument(s, i, seps) == s[i] # Quote /\ ~Separates(s, i, seps)

\* The n-th smallest element of a set of numbers
Nth(S, n) == CHOOSE x \in S : Cardinality({y \in S : y <= x}) = n

\* The characters of s that belong to an argument and have k separators before them
Piece(s, k, seps) ==
    LET at == {i \in 1..Len(s) :
                 /\ InArgument(s, i, seps)
                 /\ Cardinality({j \in 1..(i - 1) : Separates(s, j, seps)}) = k}
    IN  [n \in 1..Cardinality(at) |-> s[Nth(at, n)]]

\* s split at the separators outside quotes, quotes stripped, empty pieces dropped
SplitOutsideQuotes(s, seps) ==
    LET ks == {k \in 0..Len(s) : Piece(s, k, seps) # <<>>}
    IN  [n \in 1..Cardinality(ks) |-> Piece(s, Nth(ks, n), seps)]

ParseExamples ==
    /\ pin = ExampleQuoted =>
         pout = << <<"-", "-", "a">>, <<"b", " ", "c">>, <<"-", "-", "d">> >>
    /\ pin = <<>> => pout = <<>>
    /\ pin = ExampleSingle => pout = << <<"-", "-", "x">> >>

\* C8 as claimed: parseArgs splits on whitespace outside double quotes and
\* strips the quotes.
C8_SplitsOnWhitespace ==
    ppc = "done" => pout = SplitOutsideQuotes(pin, WhiteSpace) /\ ParseExamples

\* C8: parseArgs splits its input at the space characters outside double
\* quotes (a tab separates nothing), every quote character only toggles the
\* inside-quotes state and is stripped, no input is an error, and the three
\* examples give ["--a", "b c", "--d"], [] and ["--x"].
C8_SplitsOnSpace ==
    ppc = "done" => pout = SplitOutsideQuotes(pin, {Space}) /\ ParseExamples

\* parseArgs has returned for an input with a space inside a pair of quotes
\* and one outside, and for an input with an unmatched quote
C8_Witness ==
    /\ ppc = "done"
    /\ \/ pin = ExampleQuoted /\ Len(pout) = 3
       \/ pin = <<Quote, "a", Space, "a">> /\ Len(pout) = 1

ExeLaunched == lpc \in {"executing", "done"} /\ lentry.launch_type = "exe"

\* C9: the command of an exe entry starts the path in launch_data, followed by
\* the arguments parseArgs(launch_args) in order; launch_args that is empty or
\* only whitespace gives no argument.
C9_ExeArguments ==
    ExeLaunched =>
        /\ Len(cmds) = 1
        /\ SubSeq(cmds[1].args, 1, 4) = <<Str_c, Str_start, <<>>, lentry.launch_data>>
        /\ LET argList == SubSeq(cmds[1].args, 5, Len(cmds[1].args)) IN
           IF \A i \in 1..Len(lentry.launch_args) : lentry.launch_args[i] \in WhiteSpace
           THEN argList = <<>>
           ELSE argList = parseArgs(lentry.launch_args)

\* An exe entry with launch_args '--flag "a b"' has been launched, and one
\* whose launch_args is a tab
C9_Witness ==
    /\ ExeLaunched
    /\ \/ /\ lentry.launch_args = ExampleFlag
          /\ SubSeq(cmds[1].args, 5, 6) =
                << <<"-", "-", "f", "l", "a", "g">>, <<"a", " ", "b">> >>
       \/ lentry.launch_args = <<TabChar>> /\ Len(cmds[1].args) = 4

OtherLaunched ==
    lpc \in {"executing", "done"} /\ lentry.launch_type \in {"steam", "url", "bat"}

\* C10: the command of a steam, url or bat entry is cmd /c start
\* steam://rungameid/<launch_data>, cmd /c start <launch_data> and
\* cmd /c <launch_data>, and an entry that differs only in launch_args issues
\* the same command.
C10_ArgsIgnored ==
    OtherLaunched =>
        /\ Len(cmds) = 1
        /\ cmds[1].program = Str_cmd
        /\ lentry.launch_type = "steam" =>
             cmds[1].args = <<Str_c, Str_start, Str_steam \o lentry.launch_data>>
        /\ lentry.launch_type = "url" =>
             cmds[1].args = <<Str_c, Str_start, lentry.launch_data>>
        /\ lentry.launch_type = "bat" => cmds[1].args = <<Str_c, lentry.launch_data>>
        /\ \A a \in ArgStrings :
             CommandFor([lentry EXCEPT !.launch_args = a]) = cmds[1]

\* A bat entry with arguments in launch_args has been launched
C10_Witness ==
    /\ OtherLaunched
    /\ lentry.launch_type = "bat"
    /\ lentry.launch_args = ExampleFlag

\* The step in which launchEntry returns true
ReturnsTrue == lret # "true" /\ lret' = "true"

\* The step in which launchEntry returns false
ReturnsFalse == lret # "false" /\ lret' = "false"

\* launchEntry schedules one callback with the full delay when it returns true
\* and none when it returns false
HideScheduled ==
    /\ ReturnsTrue => timers' = Append(timers, HideDelay) /\ scheduled' = scheduled + 1
    /\ ReturnsFalse => timers' = timers /\ scheduled' = scheduled

\* A hide is requested by a callback whose delay has passed, and by nothing else
HideWhenDue ==
    hides' # hides =>
        /\ hides' = hides + 1
        /\ \E i \in 1..Len(timers) : timers[i] = 0 /\ timers' = RemoveAt(timers, i)

\* C11: a launchEntry call that returns true schedules one callback with the
\* delay of 200 ms, and one that returns false schedules none; the window is
\* asked to hide only by a callback whose delay has passed; and every callback
\* scheduled eventually makes its hide request.
C11_HideAfterLaunch ==
    /\ [](scheduled = hides + Len(timers))
    /\ [][HideScheduled]_vars
    /\ [][HideWhenDue]_vars
    /\ \A n \in 1..MaxLaunches : (scheduled >= n) ~> (hides >= n)

\* Two launches have returned true; the callback of the first has asked the
\* window to hide, the delay of the second has not passed
C11_Witness ==
    /\ scheduled = 2
    /\ hides = 1
    /\ timers = <<HideDelay \div 2>>

\* C12: a completed launchEntry call has resolved to true or to false, never
\* thrown; to false when the execution of its command rejected, whatever the
\* launch type, and to true only when that execution resolved.
C12_FailureIsFalse ==
    lpc = "done" =>
        /\ lret \in {"true", "false"}
        /\ lexec = "rejected" => lret = "false"
        /\ lret = "true" => lexec = "resolved"
        /\ lexec = "none" => lentry.launch_type \notin LaunchTypes

\* The command of a url entry could not be started and the call has resolved
C12_Witness ==
    /\ lpc = "done"
    /\ lexec = "rejected"
    /\ lret = "false"
    /\ lentry.launch_type = "url"

(***************************************************************************)
(* Properties of the page                                                  *)
(***************************************************************************)

\* The form as handleSaveEntry must refuse it: a name or launch data that is
\* empty or white space, no image, or a Steam id that is not all digits
FormRefused ==
    \/ Trim(formName) = <<>>
    \/ Trim(formLaunchData) = <<>>
    \/ formImage = ""
    \/ formLaunchType = "steam" /\ ~IsNumber(Trim(formLaunchData))

\* A click on Save with such a form sets a message of the validation, calls
\* neither addEntry nor updateEntry and leaves the store and the lists alone
RefusedSave ==
    HandleSaveEntry /\ FormRefused
        => /\ formError' \in {ErrName, getDataFieldError, ErrImage, ErrSteam}
           /\ call' = NoCall
           /\ UNCHANGED <<db, entriesShape, entriesRows, oldExists, oldRows, seq, games, apps>>

\* C15: when handleSaveEntry finds a name or a launch data that is empty or
\* white space, no image, or for steam a launch data that is not all digits,
\* it sets formError and calls neither addEntry nor updateEntry: the store
\* and the games and apps lists are unchanged
C15_InvalidFormNotSaved == [][RefusedSave]_vars

\* A Steam id that is not a number was refused while the store and a list
\* hold entries
C15_Witness ==
    /\ formError = ErrSteam
    /\ FormRefused
    /\ call = NoCall
    /\ entriesRows # {}
    /\ Len(games) > 0

\* A row of the entries table as the data model wants it
WellFormedRow(r) ==
    /\ r.launch_type \in LaunchTypes
    /\ r.name # <<>>
    /\ r.launch_data # <<>>
    /\ r.image_data # ""

\* C19: once initDatabase has completed, migration included, and through the
\* adds and edits of the form and the deletes, every stored entry has a
\* launch_type among steam, exe, url and bat, a non-empty name, a non-empty
\* launch_data and a non-empty image_data
C19_StoredEntriesWellFormed ==
    initPc = "done" =>
        /\ entriesShape = "current"
        /\ \A r \in entriesRows : WellFormedRow(r)

\* A migrated row next to a row the form added as a Steam game and edited
\* into an executable
C19_Witness ==
    /\ initPc = "done"
    /\ call = NoCall
    /\ \E r \in entriesRows : r.launch_type = "bat"
    /\ \E r \in entriesRows : r.type = "game" /\ r.launch_type = "exe"

\* The ids of the entries of a list
ListIds(list) == {list[i].id : i \in 1..Len(list)}

\* The type of the stored row with an id
TypeOf(rows, id) == {r.type : r \in {q \in rows : q.id = id}}

\* While one entry stays under edit the entry type of the form stays
TypeFixedWhileEditing ==
    editingEntry # NullEntry /\ editingEntry' = editingEntry
        => formEntryType' = formEntryType

\* The update of handleSaveEntry has resolved and the handler has ended
EditSaved == call.op = "updateEntry" /\ call.pc = "execute" /\ call'.pc = "none"

\* A saved edit leaves the type of every stored row and the ids of both lists
EditKeepsCategory ==
    EditSaved =>
        /\ IdsOf(entriesRows') = IdsOf(entriesRows)
        /\ \A id \in IdsOf(entriesRows) : TypeOf(entriesRows', id) = TypeOf(entriesRows, id)
        /\ ListIds(games') = ListIds(games)
        /\ ListIds(apps') = ListIds(apps)

\* C22: the category of an entry is fixed at creation: while an entry is
\* edited the entry type of the form cannot be changed, and saving an edit
\* changes neither the type of the entry in the store nor the list, games or
\* apps, that holds it
C22_CategoryFixed ==
    /\ [](editingEntry # NullEntry => formEntryType = editingEntry.type)
    /\ [][TypeFixedWhileEditing]_vars
    /\ [][EditKeepsCategory]_vars

\* A game has been edited with the launch type of an application and saved:
\* it is a game in the store and in the games list
C22_Witness ==
    /\ entriesShape = "current"
    /\ call = NoCall
    /\ editingEntry = NullEntry
    /\ \E r \in entriesRows :
         /\ r.type = "game" /\ r.launch_type = "exe"
         /\ r.id \in ListIds(games)
         /\ r.id \notin ListIds(apps)

\* No entry is edited on the games tab or the apps tab
EditOnlyOnAddTab == activeTab \in {"games", "apps"} => editingEntry = NullEntry

LeavesAddTab == activeTab = "add" /\ activeTab' # "add"

\* What clearForm leaves behind, in the next state
FormClearedNext ==
    /\ editingEntry' = NullEntry
    /\ formName' = <<>>
    /\ formLaunchData' = <<>>
    /\ formLaunchArgs' = <<>>
    /\ formImage' = ""
    /\ formError' = ""

LeavingClears == LeavesAddTab => FormClearedNext

LeavingAnEditClears == LeavesAddTab /\ editingEntry # NullEntry => FormClearedNext

C27_ListsHoldTheirType ==
    /\ \A i \in 1..Len(games) : games[i].type = "game"
    /\ \A i \in 1..Len(apps) : apps[i].type = "app"

\* The UPDATE of an edit has resolved on the entries table and handleSaveEntry
\* has ended
EditWritten == EditSaved /\ entriesShape = "current"

\* An entry of a list holds the five values of a payload
HoldsPayload(e, p) ==
    /\ e.name = p.name
    /\ e.launch_type = p.launch_type
    /\ e.launch_data = p.launch_data
    /\ e.launch_args = p.launch_args
    /\ e.image_data = p.image_data

EditShownAsWritten ==
    EditWritten =>
        /\ formError' # ErrDatabase
        /\ \A i \in 1..Len(games') : games'[i].id = call.id => HoldsPayload(games'[i], call.payload)
        /\ \A i \in 1..Len(apps') : apps'[i].id = call.id => HoldsPayload(apps'[i], call.payload)

\* C29: when an edit is saved and updateEntry resolves, the entry of the
\* lists with the edited id holds the name, launch type, launch data, launch
\* args and image that were written to the store and no database error is
\* shown, whatever the user does while the write is pending
C29_EditShownAsWritten == [][EditShownAsWritten]_vars

\* handleSaveEntry waits at its await of addEntry or updateEntry
SaveInProgress == call.pc # "none"

\* handleDelete waits at its await of deleteEntry
DeleteInProgress == dcall.pc # "none"

\* The onMount callback waits at one of its awaits
MountInProgress == mountPc \notin {"idle", "done", "failed"}

\* C18: the save, delete and startup-load handlers each run to completion
\* before the next begins: no two of them are in progress at the same time
C18_OneHandlerAtATime ==
    /\ ~(SaveInProgress /\ DeleteInProgress)
    /\ ~(SaveInProgress /\ MountInProgress)
    /\ ~(DeleteInProgress /\ MountInProgress)

\* C16: while a launch of the page is outstanding no click on a play button
\* or a card and no Enter starts a second launchEntry call: at most one
\* launch is in progress at any time
C16_OneLaunchAtATime == Len(launching) <= 1

\* What the page is to leave alone when a launch has failed
FailedLaunchOnlyClears ==
    LaunchFails
        => /\ launchingItem' = {}
           /\ UNCHANGED <<isOpen, winVisible, activeTab, games, apps>>

\* C17: when launchEntry reports failure, handleLaunch sets launchingItem to
\* null and does nothing else: isOpen, the visibility of the window, the
\* active tab and the lists are as before
C17_FailedLaunchOnlyClears == [][FailedLaunchOnlyClears]_vars

\* C26: whenever no save or delete handler is in progress, after the startup
\* load and any adds, edits and deletes, the lists mirror the store: the ids
\* in games together with the ids in apps are the ids of the stored entries,
\* and no id appears twice
C26_ListsMirrorStore ==
    mountPc = "done" /\ ~SaveInProgress /\ ~DeleteInProgress =>
        /\ ListIds(games) \cup ListIds(apps) = IdsOf(entriesRows)
        /\ Len(games) + Len(apps) = Cardinality(IdsOf(entriesRows))

\* C28: whenever no window toggle is in progress and no hide timer is
\* pending, isOpen is true exactly when the window is visible, for every
\* interleaving of hotkey presses, Escape presses, launches that succeed or
\* fail and the hide timer
C28_IsOpenMirrorsWindow ==
    toggling = "none" /\ timers = <<>> => (isOpen <=> winVisible)

\* A selection index of a list: 0 for the empty list, else the index of an item
InBounds(index, list) ==
    IF Len(list) = 0 THEN index = 0 ELSE index \in 0..(Len(list) - 1)

\* C24: after any arrow keys, hovers, tab switches, adds, edits and deletes
\* the selected index of each grid is within bounds: 0 when the list is empty
\* and otherwise between 0 and its length - 1
C24_SelectionInBounds ==
    /\ InBounds(selectedGameIndex, games)
    /\ InBounds(selectedAppIndex, apps)

\* The second of two games was selected and one of them was deleted
C24_Witness ==
    /\ dcall.pc = "none"
    /\ deleted # {}
    /\ Len(games) = 1
    /\ selectedGameIndex = 0
    /\ everIds = {1, 2}
    /\ apps = <<>>
    /\ activeTab = "games"

====
